---- MODULE Spec2Model ----
(***************************************************************************)
(* A model of the Trimble Connect IDS-validation extension                 *)
(* (SimonTrim/trb-ids-validation): the IDS validation engine, the IDS      *)
(* Validation tab, the host-connection hook, the viewer bridge and the     *)
(* Explorer tab's visibility toggle.                                       *)
(*                                                                         *)
(* Text is modelled as a sequence of atoms.  An atom is one character      *)
(* ("a", "A", "1", ...) or a fixed piece of text that the program only     *)
(* ever copies or compares as a whole ("IFCWALL", "Propriete '", ...);     *)
(* the French messages are written without their accents.                 *)
(* Concatenation is \o, the empty string is <<>>.  An optional value       *)
(* (undefined | x) is the sequence <<>> or <<x>>.                          *)
(***************************************************************************)
EXTENDS Integers, Sequences, FiniteSets, TLC

\* ------------------------------------------------------------------ bounds

\* Longest property / material / expected value drawn for a check, in atoms.
MaxValLen == 2
\* Largest and smallest occurrence lower bound (minOccurs) drawn for a facet.
MaxOccurs == 1
MinOccurs == 0 - 1
\* Number of IDS files in the catalogue; file f carries f - 1 specifications.
MaxFiles == 3
\* Most asynchronous operations (loads, validation runs) in flight in the tab.
MaxPending == 2
\* Operations in flight when the tab is used by one operation at a time.
MaxConcurrent == 1

\* ------------------------------------------------------------------ state

VARIABLES
    \* checkRequirement applied once: its inputs and its return value.
    cObj, cReq, cOut,
    \* normalizeSelection applied once: its input and its outcome.
    nIn, nOut,
    \* One validateIDS call.
    vRun,
    \* The IDS Validation tab.
    viewState, selectedIDS, results, validationProgress, loadError,
    showLibrary, showExportMenu, pending, resultsOf, lastFile, colorApplied,
    tint,
    \* The host-connection hook (useTrimbleConnect).
    tcEnv, tcPc, tcState, tcLocal, tcPushed, tcApiRef, tcConnects, tcPoll,
    tcTicks, tcPending, tcLastPoll,
    \* One call of a viewer-bridge function against the host.
    bCall, bPc, bAttempt, bLog, bOut, bFound,
    \* The Explorer tab's tree and what it pushed to the viewer bridge.
    exVisible, exPush, exLast,
    \* One specification element parsed: its two blocks and the outcome.
    pIn, pOut,
    \* exportValidationCSV applied once: its arguments and the lines written.
    xIn, xOut,
    \* One getAllIFCObjects call.
    eApi, ePc, eModels, eM, eIds, eI, eFlight, eLog, eObjects, eOut, eAsked,
    \* The Technical Sheet tab: its selection effect and the fetches it started.
    sApi, sSel, sMounted, sObject, sLoading, sFetches, sRuns, sLatest,
    \* The Statistics tab's tiles and the drag in progress.
    tiles, draggedId, dragOverId, lastDrop,
    \* matchesConstraint applied once: its arguments and its return value.
    mConstraint, mActual, mOut,
    \* One classification facet used as a filter and as a requirement.
    fObj, fFacet, fMatch, fCheck,
    \* detectModelFilters and computeModelStatistics over one enumerated object list.
    gApi, gObjects, gFilters, gStats,
    \* The published selection against the host's selection (useTrimbleConnect).
    syHost, syChanges, syEvents, syPc, syInit, syQueries, syState, syPoll,
    syFromEvent, syReplacedBy,
    \* parseRestriction applied once: the element and the restriction read from it.
    rEl, rOut

checkVars == <<cObj, cReq, cOut>>
normalizeVars == <<nIn, nOut>>
validateVars == <<vRun>>
tabVars == <<viewState, selectedIDS, results, validationProgress, loadError,
             showLibrary, showExportMenu, pending, resultsOf, lastFile,
             colorApplied, tint>>
connectVars == <<tcEnv, tcPc, tcState, tcLocal, tcPushed, tcApiRef,
                 tcConnects, tcPoll, tcTicks, tcPending, tcLastPoll>>
bridgeVars == <<bCall, bPc, bAttempt, bLog, bOut, bFound>>
explorerVars == <<exVisible, exPush, exLast>>
parseVars == <<pIn, pOut>>
csvVars == <<xIn, xOut>>
enumVars == <<eApi, ePc, eModels, eM, eIds, eI, eFlight, eLog, eObjects, eOut,
              eAsked>>
sheetVars == <<sApi, sSel, sMounted, sObject, sLoading, sFetches, sRuns,
               sLatest>>
statsVars == <<tiles, draggedId, dragOverId, lastDrop>>
matchVars == <<mConstraint, mActual, mOut>>
facetVars == <<fObj, fFacet, fMatch, fCheck>>
deriveVars == <<gApi, gObjects, gFilters, gStats>>
syncVars == <<syHost, syChanges, syEvents, syPc, syInit, syQueries, syState,
              syPoll, syFromEvent, syReplacedBy>>
restrictVars == <<rEl, rOut>>

vars == <<checkVars, normalizeVars, validateVars, tabVars, connectVars,
          bridgeVars, explorerVars, parseVars, csvVars, enumVars, sheetVars,
          statsVars, matchVars, facetVars, deriveVars, syncVars, restrictVars>>

\* What an action of one component leaves alone: the other components.
checkOthers == <<normalizeVars, validateVars, tabVars, connectVars,
                 bridgeVars, explorerVars, parseVars, csvVars, enumVars,
                 sheetVars, statsVars, matchVars, facetVars, deriveVars,
                 syncVars, restrictVars>>
normalizeOthers == <<checkVars, validateVars, tabVars, connectVars,
                     bridgeVars, explorerVars, parseVars, csvVars, enumVars,
                     sheetVars, statsVars, matchVars, facetVars, deriveVars,
                     syncVars, restrictVars>>
validateOthers == <<checkVars, normalizeVars, tabVars, connectVars,
                    bridgeVars, explorerVars, parseVars, csvVars, enumVars,
                    sheetVars, statsVars, matchVars, facetVars, deriveVars,
                    syncVars, restrictVars>>
tabOthers == <<checkVars, normalizeVars, validateVars, connectVars,
               bridgeVars, explorerVars, parseVars, csvVars, enumVars,
               sheetVars, statsVars, matchVars, facetVars, deriveVars,
               syncVars, restrictVars>>
connectOthers == <<checkVars, normalizeVars, validateVars, tabVars,
                   bridgeVars, explorerVars, parseVars, csvVars, enumVars,
                   sheetVars, statsVars, matchVars, facetVars, deriveVars,
                   syncVars, restrictVars>>
bridgeOthers == <<checkVars, normalizeVars, validateVars, tabVars,
                  connectVars, explorerVars, parseVars, csvVars, enumVars,
                  sheetVars, statsVars, matchVars, facetVars, deriveVars,
                  syncVars, restrictVars>>
explorerOthers == <<checkVars, normalizeVars, validateVars, tabVars,
                    connectVars, bridgeVars, parseVars, csvVars, enumVars,
                    sheetVars, statsVars, matchVars, facetVars, deriveVars,
                    syncVars, restrictVars>>
parseOthers == <<checkVars, normalizeVars, validateVars, tabVars, connectVars,
                 bridgeVars, explorerVars, csvVars, enumVars, sheetVars,
                 statsVars, matchVars, facetVars, deriveVars, syncVars,
                 restrictVars>>
csvOthers == <<checkVars, normalizeVars, validateVars, tabVars, connectVars,
               bridgeVars, explorerVars, parseVars, enumVars, sheetVars,
               statsVars, matchVars, facetVars, deriveVars, syncVars,
               restrictVars>>
enumOthers == <<checkVars, normalizeVars, validateVars, tabVars, connectVars,
                bridgeVars, explorerVars, parseVars, csvVars, sheetVars,
                statsVars, matchVars, facetVars, deriveVars, syncVars,
                restrictVars>>
sheetOthers == <<checkVars, normalizeVars, validateVars, tabVars, connectVars,
                 bridgeVars, explorerVars, parseVars, csvVars, enumVars,
                 statsVars, matchVars, facetVars, deriveVars, syncVars,
                 restrictVars>>
statsOthers == <<checkVars, normalizeVars, validateVars, tabVars, connectVars,
                 bridgeVars, explorerVars, parseVars, csvVars, enumVars,
                 sheetVars, matchVars, facetVars, deriveVars, syncVars,
                 restrictVars>>
matchOthers == <<checkVars, normalizeVars, validateVars, tabVars, connectVars,
                 bridgeVars, explorerVars, parseVars, csvVars, enumVars,
                 sheetVars, statsVars, facetVars, deriveVars, syncVars,
                 restrictVars>>
facetOthers == <<checkVars, normalizeVars, validateVars, tabVars, connectVars,
                 bridgeVars, explorerVars, parseVars, csvVars, enumVars,
                 sheetVars, statsVars, matchVars, deriveVars, syncVars,
                 restrictVars>>
deriveOthers == <<checkVars, normalizeVars, validateVars, tabVars,
                  connectVars, bridgeVars, explorerVars, parseVars, csvVars,
                  enumVars, sheetVars, statsVars, matchVars, facetVars,
                  syncVars, restrictVars>>
syncOthers == <<checkVars, normalizeVars, validateVars, tabVars, connectVars,
                bridgeVars, explorerVars, parseVars, csvVars, enumVars,
                sheetVars, statsVars, matchVars, facetVars, deriveVars,
                restrictVars>>
restrictOthers == <<checkVars, normalizeVars, validateVars, tabVars,
                    connectVars, bridgeVars, explorerVars, parseVars, csvVars,
                    enumVars, sheetVars, statsVars, matchVars, facetVars,
                    deriveVars, syncVars>>

\* ------------------------------------------------------- optional values

None == <<>>
Some(x) == <<x>>
IsSome(o) == o # <<>>
Get(o) == o[1]

\* ------------------------------------------------------------------ text

\* The characters values are drawn from: a letter in both cases and a digit.
Chars == {"a", "A", "1"}

\* String.prototype.toUpperCase, one atom at a time.
ToUpperChar(c) ==
    CASE c = "a" -> "A"
      [] c = "true" -> "TRUE"
      [] c = "false" -> "FALSE"
      [] c = "ifcwall" -> "IFCWALL"
      [] c = "uniclass" -> "UNICLASS"
      [] c = "Uniclass" -> "UNICLASS"
      [] OTHER -> c

\* A slip: the comparison made case-sensitive (no upper-casing).
ToUpperCaseNoOp(s) == s

ToUpperCase(s) == [i \in 1..Len(s) |-> ToUpperChar(s[i])]

\* All strings over Chars of length at most n.
StrsUpTo(n) == UNION {[1..k -> Chars] : k \in 0..n}

\* Array.prototype.join over an array of strings.
RECURSIVE Join(_, _)
Join(arr, sep) ==
    IF Len(arr) = 0 THEN <<>>
    ELSE IF Len(arr) = 1 THEN arr[1]
    ELSE arr[1] \o sep \o Join(Tail(arr), sep)

\* String.prototype.includes.
Includes(s, sub) ==
    \E k \in 1..(Len(s) + 1) :
        /\ k + Len(sub) - 1 <= Len(s)
        /\ \A i \in 1..Len(sub) : s[k + i - 1] = sub[i]

\* new RegExp(p) throws for an unbalanced "("; every other pattern over the
\* atoms used here is valid: a literal atom matches itself, "." any atom.
ValidPattern(p) == \A i \in 1..Len(p) : p[i] # "("

\* RegExp.prototype.test for a valid pattern: an unanchored search.
RegExpTest(p, s) ==
    \E k \in 1..(Len(s) + 1) :
        /\ k + Len(p) - 1 <= Len(s)
        /\ \A i \in 1..Len(p) : p[i] = "." \/ s[k + i - 1] = p[i]

IsDigit(c) == c \in {"0", "1", "2", "3", "4", "5", "6", "7", "8", "9"}

DigitVal(c) ==
    CASE c = "0" -> 0 [] c = "1" -> 1 [] c = "2" -> 2 [] c = "3" -> 3
      [] c = "4" -> 4 [] c = "5" -> 5 [] c = "6" -> 6 [] c = "7" -> 7
      [] c = "8" -> 8 [] c = "9" -> 9 [] OTHER -> 0

\* The value of the longest prefix of digits of s, read after acc.
RECURSIVE DigitsValue(_, _)
DigitsValue(s, acc) ==
    IF Len(s) = 0 \/ ~IsDigit(s[1]) THEN acc
    ELSE DigitsValue(Tail(s), 10 * acc + DigitVal(s[1]))

\* parseFloat over the atoms used here: the leading digits, or NaN (None)
\* when the text does not start with a digit.
ParseFloat(s) ==
    IF Len(s) = 0 \/ ~IsDigit(s[1]) THEN None ELSE Some(DigitsValue(s, 0))

\* parseInt(part, 10): the leading digits, NaN (None) without one.
ParseInt(part) ==
    IF IsDigit(part) THEN Some(DigitVal(part)) ELSE None

\* ------------------------------------------------------ binary64 numbers

\* A natural number of any size: its digits in base 2^15, the lowest first
\* and the highest not 0; <<>> is 0.  The operators on the digits of a
\* number split them in two halves, the carry of the low half going into
\* the high one.
LimbBase == 2^15

RECURSIVE BigOf(_)
BigOf(n) == IF n = 0 THEN <<>> ELSE <<n % LimbBase>> \o BigOf(n \div LimbBase)

\* The set's largest element.
Highest(S) == CHOOSE i \in S : \A j \in S : j <= i

\* Digits without the zeros above the highest digit that is not 0.
BigTrim(a) ==
    LET used == {i \in 1..Len(a) : a[i] # 0} IN
    IF used = {} THEN <<>> ELSE SubSeq(a, 1, Highest(used))

\* The Len(a) low digits of a * m + c, and the carry above them, for
\* 0 < m < 2^15 and 0 <= c < 2^15.
RECURSIVE TimesDigits(_, _, _)
TimesDigits(a, m, c) ==
    IF Len(a) = 0 THEN [digits |-> <<>>, carry |-> c]
    ELSE IF Len(a) = 1
    THEN [digits |-> <<(a[1] * m + c) % LimbBase>>,
          carry |-> (a[1] * m + c) \div LimbBase]
    ELSE LET low == TimesDigits(SubSeq(a, 1, Len(a) \div 2), m, c)
             high == TimesDigits(SubSeq(a, Len(a) \div 2 + 1, Len(a)), m, low.carry)
         IN [digits |-> low.digits \o high.digits, carry |-> high.carry]

\* a * m + c for 0 < m < 2^15 and 0 <= c < 2^15.
BigTimes(a, m, c) ==
    LET product == TimesDigits(a, m, c) IN product.digits \o BigOf(product.carry)

\* a * 2^k.
BigShift(a, k) ==
    IF a = <<>> THEN <<>>
    ELSE [i \in 1..(k \div 15) |-> 0] \o BigTimes(a, 2^(k % 15), 0)

\* a * radix^k for a radix up to 16.
RECURSIVE BigTimesPower(_, _, _)
BigTimesPower(a, radix, k) ==
    IF a = <<>> \/ k = 0 THEN a
    ELSE IF k <= 3 THEN BigTimes(a, radix^k, 0)
    ELSE BigTimesPower(BigTimesPower(a, radix, k \div 2), radix, k - k \div 2)

\* The digits of a + b + carry, for a and b of the same length, and the
\* carry above them.
RECURSIVE PlusDigits(_, _, _)
PlusDigits(a, b, carry) ==
    IF Len(a) = 0 THEN [digits |-> <<>>, carry |-> carry]
    ELSE IF Len(a) = 1
    THEN [digits |-> <<(a[1] + b[1] + carry) % LimbBase>>,
          carry |-> (a[1] + b[1] + carry) \div LimbBase]
    ELSE LET low == PlusDigits(SubSeq(a, 1, Len(a) \div 2),
                               SubSeq(b, 1, Len(a) \div 2), carry)
             high == PlusDigits(SubSeq(a, Len(a) \div 2 + 1, Len(a)),
                                SubSeq(b, Len(a) \div 2 + 1, Len(a)), low.carry)
         IN [digits |-> low.digits \o high.digits, carry |-> high.carry]

\* a + b.
BigPlus(a, b) ==
    LET long == IF Len(a) < Len(b) THEN b ELSE a
        short == IF Len(a) < Len(b) THEN a ELSE b
        sum == PlusDigits(long, short \o [i \in 1..(Len(long) - Len(short)) |-> 0], 0)
    IN sum.digits \o BigOf(sum.carry)

\* The order of a and b: -1 for a < b, 0 for a = b, 1 for a > b.
BigCompare(a, b) ==
    IF Len(a) # Len(b) THEN (IF Len(a) < Len(b) THEN 0 - 1 ELSE 1)
    ELSE LET differ == {i \in 1..Len(a) : a[i] # b[i]} IN
         IF differ = {} THEN 0
         ELSE IF a[Highest(differ)] < b[Highest(differ)] THEN 0 - 1 ELSE 1

\* The digits of a - b - borrow, for a and b of the same length, and what
\* is borrowed above them.
RECURSIVE MinusDigits(_, _, _)
MinusDigits(a, b, borrow) ==
    IF Len(a) = 0 THEN [digits |-> <<>>, borrow |-> borrow]
    ELSE IF Len(a) = 1
    THEN [digits |-> <<(a[1] + LimbBase - b[1] - borrow) % LimbBase>>,
          borrow |-> IF a[1] < b[1] + borrow THEN 1 ELSE 0]
    ELSE LET low == MinusDigits(SubSeq(a, 1, Len(a) \div 2),
                                SubSeq(b, 1, Len(a) \div 2), borrow)
             high == MinusDigits(SubSeq(a, Len(a) \div 2 + 1, Len(a)),
                                 SubSeq(b, Len(a) \div 2 + 1, Len(a)), low.borrow)
         IN [digits |-> low.digits \o high.digits, borrow |-> high.borrow]

\* a - b for a >= b.
BigMinus(a, b) ==
    BigTrim(MinusDigits(a, b \o [i \in 1..(Len(a) - Len(b)) |-> 0], 0).digits)

\* How many bits the positive integer n, and the natural number a, have.
RECURSIVE BitLength(_)
BitLength(n) == IF n = 0 THEN 0 ELSE 1 + BitLength(n \div 2)

BigBitLength(a) ==
    IF a = <<>> THEN 0 ELSE 15 * (Len(a) - 1) + BitLength(a[Len(a)])

\* The value of fewer than 31 bits, the highest first, read after acc.
RECURSIVE IntOfBits(_, _)
IntOfBits(bits, acc) ==
    IF bits = <<>> THEN acc ELSE IntOfBits(Tail(bits), 2 * acc + Head(bits))

\* The natural number with the bits given, the highest first: its digit i
\* is the value of the 15 bits that end 15 * (i - 1) bits before the last.
BigOfBits(bits) ==
    BigTrim([i \in 1..((Len(bits) + 14) \div 15) |->
                IntOfBits(SubSeq(bits,
                                 IF Len(bits) - 15 * i + 1 < 1 THEN 1
                                 ELSE Len(bits) - 15 * i + 1,
                                 Len(bits) - 15 * (i - 1)), 0)])

\* The bits, the highest first, of bits + 1.
BitsPlusOne(bits) ==
    LET zeros == {i \in 1..Len(bits) : bits[i] = 0} IN
    IF zeros = {} THEN <<1>> \o [i \in 1..Len(bits) |-> 0]
    ELSE [i \in 1..Len(bits) |->
            IF i < Highest(zeros) THEN bits[i]
            ELSE IF i = Highest(zeros) THEN 1 ELSE 0]

\* Long division: the n bits, the highest first, of the quotient of x by
\* y, for x < y * 2^n and n >= 1, and the remainder.  Under y every bit is
\* 0; else the high half of the bits is the quotient by y * 2^low, the low
\* half the quotient of what that division leaves.
RECURSIVE BigDivide(_, _, _)
BigDivide(x, y, n) ==
    IF BigCompare(x, y) < 0 THEN [bits |-> [i \in 1..n |-> 0], remainder |-> x]
    ELSE IF n = 1 THEN [bits |-> <<1>>, remainder |-> BigMinus(x, y)]
    ELSE LET high == BigDivide(x, BigShift(y, n \div 2), n - n \div 2)
             low == BigDivide(high.remainder, y, n \div 2)
         IN [bits |-> high.bits \o low.bits, remainder |-> low.remainder]

\* The lowest exponent of the unit of the last place of a binary64 number.
MinExponent == 0 - 1074

\* The exponent that gives the quotient of a by b (a > 0, b > 0) 53 bits:
\* the first guess, from the lengths of a and b, gives it 53 or 54.
NormalExponent(a, b) ==
    LET guess == BigBitLength(a) - BigBitLength(b) - 53 IN
    IF BigCompare(IF guess < 0 THEN BigShift(a, 0 - guess) ELSE a,
                  BigShift(b, 53 + (IF guess > 0 THEN guess ELSE 0))) >= 0
    THEN guess + 1 ELSE guess

\* The quotient of a division by y rounded to an integer of 53 bits, the
\* highest first: up when the remainder is over half of y, and at the
\* half when the quotient is odd.
RoundedBits(quotient, y) ==
    LET half == BigCompare(BigTimes(quotient.remainder, 2, 0), y) IN
    IF half > 0 \/ (half = 0 /\ quotient.bits[53] = 1)
    THEN BitsPlusOne(quotient.bits) ELSE quotient.bits

\* x / y (x < y * 2^53) rounded to an integer of 53 bits, a tie going to
\* the even one.
RoundedQuotient(x, y) == RoundedBits(BigDivide(x, y, 53), y)

\* a / b rounded to a multiple of 2^exponent, as mantissa * 2^exponent.
ScaledQuotient(a, b, exponent) ==
    [mantissa |-> IF exponent < 0
                  THEN RoundedQuotient(BigShift(a, 0 - exponent), b)
                  ELSE RoundedQuotient(a, BigShift(b, exponent)),
     exponent |-> exponent]

AtLeast(n, least) == IF n < least THEN least ELSE n

\* a / b (a > 0, b > 0) rounded to a mantissa of 53 bits, a tie going to
\* the even mantissa: the number is mantissa * 2^exponent, the mantissa
\* given by its bits, the highest first.  The exponent is the one that
\* gives the quotient 53 bits, or -1074 when that one is lower.  A mantissa
\* of 0 is the zero everything up to 2^-1075 rounds to.
NearestBinary64(a, b) ==
    ScaledQuotient(a, b, AtLeast(NormalExponent(a, b), MinExponent))

\* Math.round(x) for a binary64 number x >= 0 below 2^30: floor(x + 0.5),
\* the integer part of x plus the bit of weight one half.
MathRound(x) ==
    LET places == 0 - x.exponent
        length == Len(x.mantissa)
    IN IF places <= 0 THEN IntOfBits(x.mantissa, 0) * 2^x.exponent
       ELSE IF places > length THEN 0
       ELSE IntOfBits(SubSeq(x.mantissa, 1, length - places), 0)
                + x.mantissa[length - places + 1]

\* x * 100 rounded to binary64, for a binary64 number x > 0.
TimesHundred(x) ==
    NearestBinary64(BigShift(BigTimes(BigOfBits(x.mantissa), 100, 0),
                             AtLeast(x.exponent, 0)),
                    BigShift(<<1>>, AtLeast(0 - x.exponent, 0)))

\* Math.round((p / c) * 100) for 0 <= p and 0 < c: the quotient is rounded
\* to binary64, then the product, then Math.round takes the integer nearest
\* to it, a tie going up (23 / 40 * 100 is 57.49999999999999, so 57).
MathRoundPercent(p, c) ==
    IF p = 0 THEN 0
    ELSE MathRound(TimesHundred(NearestBinary64(BigOf(p), BigOf(c))))

\* ------------------------------------------------- Number() on a string

\* A character that a string of this module cannot hold, one outside ASCII
\* or a vertical tab, is the atom that spells its code point: "U+00A0".
\* StrWhiteSpaceChar: the white space and the line terminators of
\* ECMAScript.
IsStrWhiteSpace(c) ==
    c \in {" ", "\t", "\n", "\r", "\f", "U+000B", "U+00A0", "U+FEFF",
           "U+1680", "U+2000", "U+2001", "U+2002", "U+2003", "U+2004",
           "U+2005", "U+2006", "U+2007", "U+2008", "U+2009", "U+200A",
           "U+2028", "U+2029", "U+202F", "U+205F", "U+3000"}

\* The set's smallest element.
Lowest(S) == CHOOSE i \in S : \A j \in S : i <= j

\* s without the white space it starts and ends with.
StrTrim(s) ==
    LET kept == {i \in 1..Len(s) : ~IsStrWhiteSpace(s[i])} IN
    IF kept = {} THEN <<>> ELSE SubSeq(s, Lowest(kept), Highest(kept))

\* The digits of the radixes 2, 8, 10 and 16 with their values.
RadixDigits ==
    <<"0", "1", "2", "3", "4", "5", "6", "7", "8", "9",
      "a", "b", "c", "d", "e", "f">>
UpperRadixDigits == <<"A", "B", "C", "D", "E", "F">>

RadixDigitVal(c) ==
    IF \E k \in 1..Len(RadixDigits) : RadixDigits[k] = c
    THEN (CHOOSE k \in 1..Len(RadixDigits) : RadixDigits[k] = c) - 1
    ELSE IF \E k \in 1..Len(UpperRadixDigits) : UpperRadixDigits[k] = c
    THEN (CHOOSE k \in 1..Len(UpperRadixDigits) : UpperRadixDigits[k] = c) + 9
    ELSE 16

IsRadixDigit(c, radix) == RadixDigitVal(c) < radix

\* How many atoms of s from position i on are digits of the radix.
RadixRun(s, i, radix) ==
    LET stops == {j \in i..Len(s) : ~IsRadixDigit(s[j], radix)} IN
    IF stops # {} THEN Lowest(stops) - i
    ELSE IF i > Len(s) THEN 0 ELSE Len(s) - i + 1

\* The integer up to three digits of the radix spell, read after acc.
RECURSIVE SmallValue(_, _, _)
SmallValue(s, radix, acc) ==
    IF s = <<>> THEN acc
    ELSE SmallValue(Tail(s), radix, radix * acc + RadixDigitVal(Head(s)))

\* The natural number a string of digits of the radix spells: what its
\* first half spells, times the radix to the length of the second half,
\* plus what the second half spells.
RECURSIVE RadixValue(_, _)
RadixValue(s, radix) ==
    IF Len(s) <= 3 THEN BigOf(SmallValue(s, radix, 0))
    ELSE BigPlus(BigTimesPower(RadixValue(SubSeq(s, 1, Len(s) \div 2), radix),
                               radix, Len(s) - Len(s) \div 2),
                 RadixValue(SubSeq(s, Len(s) \div 2 + 1, Len(s)), radix))

\* A string of digits without the zeros it starts with.
Significant(s) ==
    LET used == {i \in 1..Len(s) : s[i] # "0"} IN
    IF used = {} THEN <<>>
    ELSE SubSeq(s, Lowest(used), Len(s))

\* The exponent a string of decimal digits spells; beyond six digits every
\* exponent gives the same number, an infinity or a zero.
ExponentLimit == 10^6

ExponentValue(s) ==
    IF Len(Significant(s)) > 6 THEN ExponentLimit
    ELSE SmallValue(Significant(s), 10, 0)

\* The number values Number gives: NaN, an integer below 2^30 in size, -0,
\* an infinity, a binary64 number that is no integer, held as the fraction
\* num/den in lowest terms (num below 2^30 in size, den a power of two from
\* 2 to 2^30), and any other binary64 number, held as mantissa * 2^exponent
\* with the bits of an odd mantissa, the highest first.
NaN == [kind |-> "NaN"]
IntegerNumber(v) == [kind |-> "int", v |-> v]
NegativeZero == [kind |-> "-0"]
InfinityNumber(neg) == [kind |-> IF neg THEN "-Infinity" ELSE "Infinity"]
FractionNumber(num, den) == [kind |-> "fraction", num |-> num, den |-> den]
ScaledNumber(neg, mantissa, exponent) ==
    [kind |-> "scaled", neg |-> neg, mantissa |-> mantissa, exponent |-> exponent]

Signed(neg, v) == IF neg THEN 0 - v ELSE v

SignedZero(neg) == IF neg THEN NegativeZero ELSE IntegerNumber(0)

\* The number value (-1)^neg * odd * 2^exponent, odd given by its bits:
\* a number of more than 1024 bits is the infinity everything from
\* 2^1024 - 2^970 on rounds to.
OddScaled(neg, odd, exponent) ==
    IF Len(odd) + exponent > 1024 THEN InfinityNumber(neg)
    ELSE IF exponent >= 0 /\ Len(odd) + exponent <= 30
    THEN IntegerNumber(Signed(neg, IntOfBits(odd, 0) * 2^exponent))
    ELSE IF exponent < 0 /\ Len(odd) <= 30 /\ 0 - exponent <= 30
    THEN FractionNumber(Signed(neg, IntOfBits(odd, 0)), 2^(0 - exponent))
    ELSE ScaledNumber(neg, odd, exponent)

\* The number value of the binary64 number (-1)^neg * r.
NumberValueOf(neg, r) ==
    LET ones == {i \in 1..Len(r.mantissa) : r.mantissa[i] = 1} IN
    IF ones = {} THEN SignedZero(neg)
    ELSE OddScaled(neg, SubSeq(r.mantissa, Lowest(ones), Highest(ones)),
                   r.exponent + Len(r.mantissa) - Highest(ones))

\* The number value of (-1)^neg * a / b rounded to binary64, for natural
\* numbers a and b > 0.
Binary64(neg, a, b) ==
    IF a = <<>> THEN SignedZero(neg) ELSE NumberValueOf(neg, NearestBinary64(a, b))

\* (-1)^neg * digits * 10^p as a number value, digits a string of decimal
\* digits.  A numeral of 310 digits before the point or more is past every
\* binary64 number, one that starts 324 places or more after the point is
\* under 2^-1075; between the two the value is rounded to the nearest
\* binary64 number.
DecimalNumber(neg, digits, p) ==
    LET order == Len(Significant(digits)) + p IN
    IF Significant(digits) = <<>> THEN SignedZero(neg)
    ELSE IF order > 309 THEN InfinityNumber(neg)
    ELSE IF order < 0 - 323 THEN SignedZero(neg)
    ELSE Binary64(neg,
                  BigTimesPower(RadixValue(digits, 10), 10, AtLeast(p, 0)),
                  BigTimesPower(<<1>>, 10, AtLeast(0 - p, 0)))

\* NonDecimalIntegerLiteral: 0x, 0o or 0b in either case, then one digit
\* of the radix or more and nothing else; no sign.
LiteralRadix(c) ==
    CASE c \in {"x", "X"} -> 16 [] c \in {"o", "O"} -> 8
      [] c \in {"b", "B"} -> 2 [] OTHER -> 0

IsNonDecimalLiteral(t) ==
    /\ Len(t) >= 3 /\ t[1] = "0" /\ LiteralRadix(t[2]) # 0
    /\ RadixRun(t, 3, LiteralRadix(t[2])) = Len(t) - 2

InfinityLiteral == <<"I", "n", "f", "i", "n", "i", "t", "y">>

\* StrUnsignedDecimalLiteral with the sign read before it: Infinity, or
\* digits with an optional fraction and an optional exponent.  "1.", ".5"
\* and "1e+2" are numerals; ".", "1e" and "e1" are not.
UnsignedDecimal(neg, body) ==
    IF body = InfinityLiteral THEN InfinityNumber(neg)
    ELSE
    LET intLen == RadixRun(body, 1, 10)
        hasDot == intLen + 1 <= Len(body) /\ body[intLen + 1] = "."
        fracLen == IF hasDot THEN RadixRun(body, intLen + 2, 10) ELSE 0
        mantEnd == intLen + (IF hasDot THEN 1 + fracLen ELSE 0)
        digits == SubSeq(body, 1, intLen)
                      \o SubSeq(body, intLen + 2, intLen + 1 + fracLen)
        hasExp == mantEnd + 1 <= Len(body) /\ body[mantEnd + 1] \in {"e", "E"}
        expSigned == mantEnd + 2 <= Len(body) /\ body[mantEnd + 2] \in {"+", "-"}
        expStart == mantEnd + (IF expSigned THEN 3 ELSE 2)
        expLen == RadixRun(body, expStart, 10)
        expAbs == ExponentValue(SubSeq(body, expStart, expStart + expLen - 1))
        exp == IF mantEnd = Len(body) THEN 0
               ELSE IF expSigned /\ body[mantEnd + 2] = "-" THEN 0 - expAbs
               ELSE expAbs
        wellFormed ==
            /\ intLen + fracLen > 0
            /\ \/ mantEnd = Len(body)
               \/ hasExp /\ expLen >= 1 /\ expStart + expLen - 1 = Len(body)
    IN IF wellFormed THEN DecimalNumber(neg, digits, exp - fracLen) ELSE NaN

\* StringToNumber(s): white space around the numeral is dropped; nothing
\* left is 0; anything that is no StrNumericLiteral is NaN.
StringToNumber(s) ==
    LET t == StrTrim(s)
        signed == t # <<>> /\ t[1] \in {"+", "-"}
    IN IF t = <<>> THEN IntegerNumber(0)
       ELSE IF IsNonDecimalLiteral(t)
       THEN Binary64(FALSE, RadixValue(SubSeq(t, 3, Len(t)), LiteralRadix(t[2])),
                     <<1>>)
       ELSE UnsignedDecimal(signed /\ t[1] = "-", IF signed THEN Tail(t) ELSE t)

\* A number value where the caller has ruled NaN out with isNaN: None for
\* NaN, else the value: the integer itself, or the number value when it is
\* no integer.
NotNaN(r) ==
    IF r.kind = "NaN" THEN None ELSE Some(IF r.kind = "int" THEN r.v ELSE r)

\* Number(s) for a string, None when it is NaN.
NumberOf(s) == NotNaN(StringToNumber(s))

\* ------------------------------------------------ IDS value constraints

\* IDSRestriction: every facet optional.
NoRestriction ==
    [pattern |-> None, enumeration |-> None, minLength |-> None,
     maxLength |-> None, length |-> None, minInclusive |-> None,
     maxInclusive |-> None]

\* IDSValueConstraint | undefined: type "absent" stands for undefined.
NoConstraint == [type |-> "absent", value |-> <<>>, restriction |-> None]
SimpleValue(v) == [type |-> "simpleValue", value |-> v, restriction |-> None]
Restriction(r) == [type |-> "restriction", value |-> <<>>, restriction |-> Some(r)]

\* A slip: every facet of a restriction must hold, instead of the first one
\* that is set deciding alone.
matchesConstraintEveryFacet(constraint, actual) ==
    IF constraint.type = "absent" THEN TRUE
    ELSE IF constraint.type = "simpleValue" THEN
        IF constraint.value = <<>> THEN IsSome(actual)
        ELSE IsSome(actual)
             /\ ToUpperCase(Get(actual)) = ToUpperCase(constraint.value)
    ELSE IF ~IsSome(constraint.restriction) THEN TRUE
    ELSE IF ~IsSome(actual) THEN FALSE
    ELSE
        LET r == Get(constraint.restriction)
            a == Get(actual)
            num == ParseFloat(a)
        IN
        /\ (IsSome(r.pattern) /\ Get(r.pattern) # <<>>) =>
                IF ValidPattern(Get(r.pattern))
                THEN RegExpTest(Get(r.pattern), a)
                ELSE Includes(a, Get(r.pattern))
        /\ IsSome(r.enumeration) =>
                \E i \in 1..Len(Get(r.enumeration)) :
                    ToUpperCase(Get(r.enumeration)[i]) = ToUpperCase(a)
        /\ IsSome(r.minLength) => Len(a) >= Get(r.minLength)
        /\ IsSome(r.maxLength) => Len(a) <= Get(r.maxLength)
        /\ IsSome(r.length) => Len(a) = Get(r.length)
        /\ (IsSome(num) /\ IsSome(r.minInclusive)) => Get(num) >= Get(r.minInclusive)
        /\ (IsSome(num) /\ IsSome(r.maxInclusive)) => Get(num) <= Get(r.maxInclusive)

matchesConstraint(constraint, actual) ==
    IF constraint.type = "absent" THEN TRUE
    ELSE IF constraint.type = "simpleValue" THEN
        IF constraint.value = <<>> THEN IsSome(actual)
        ELSE IsSome(actual)
             /\ ToUpperCase(Get(actual)) = ToUpperCase(constraint.value)
    ELSE IF constraint.type = "restriction" /\ IsSome(constraint.restriction) THEN
        LET r == Get(constraint.restriction) IN
        IF ~IsSome(actual) THEN FALSE
        ELSE
            LET a == Get(actual)
                num == ParseFloat(a)
            IN
            IF IsSome(r.pattern) /\ Get(r.pattern) # <<>> THEN
                IF ValidPattern(Get(r.pattern))
                THEN RegExpTest(Get(r.pattern), a)
                ELSE Includes(a, Get(r.pattern))
            ELSE IF IsSome(r.enumeration) THEN
                \E i \in 1..Len(Get(r.enumeration)) :
                    ToUpperCase(Get(r.enumeration)[i]) = ToUpperCase(a)
            ELSE IF IsSome(r.minLength) /\ Len(a) < Get(r.minLength) THEN FALSE
            ELSE IF IsSome(r.maxLength) /\ Len(a) > Get(r.maxLength) THEN FALSE
            ELSE IF IsSome(r.length) /\ Len(a) # Get(r.length) THEN FALSE
            ELSE IF IsSome(num) /\ IsSome(r.minInclusive)
                    /\ Get(num) < Get(r.minInclusive) THEN FALSE
            ELSE IF IsSome(num) /\ IsSome(r.maxInclusive)
                    /\ Get(num) > Get(r.maxInclusive) THEN FALSE
            ELSE TRUE
    ELSE TRUE

constraintDisplayVal(c) ==
    IF c.type = "absent" THEN <<>>
    ELSE IF c.type = "simpleValue" THEN c.value
    ELSE IF IsSome(c.restriction) THEN
        LET r == Get(c.restriction) IN
        IF IsSome(r.pattern) /\ Get(r.pattern) # <<>>
        THEN <<"/">> \o Get(r.pattern) \o <<"/">>
        ELSE IF IsSome(r.enumeration) THEN Join(Get(r.enumeration), <<" | ">>)
        ELSE <<"(restriction)">>
    ELSE <<>>

\* facet.x?.value ?? constraintDisplayVal(facet.x): the literal of a simple
\* value (even when empty), the display text of anything else.
FacetFieldName(c) ==
    IF c.type = "simpleValue" THEN c.value ELSE constraintDisplayVal(c)

\* ------------------------------------------------------ facets, objects

\* IDSFacet: the constraints a facet kind does not use stay absent.
Facet(type) ==
    [type |-> type, entityName |-> NoConstraint, predefinedType |-> NoConstraint,
     propertySet |-> NoConstraint, baseName |-> NoConstraint,
     attributeName |-> NoConstraint, system |-> NoConstraint,
     value |-> NoConstraint, minOccurs |-> None]

\* IDSRequirement, reduced to what the validation engine reads.
Requirement(id, facet) == [id |-> id, type |-> facet.type, facet |-> facet]

\* A JavaScript record used as a map: the value under key, or undefined.
Lookup(map, key) == IF key \in DOMAIN map THEN Some(map[key]) ELSE None

EmptyMap == [k \in {} |-> <<>>]

\* IFCObject.
IFCObject(id, ifcClass, attributes, properties, materials, classifications) ==
    [id |-> id, name |-> id, ifcClass |-> ifcClass, predefinedType |-> None,
     attributes |-> attributes, properties |-> properties,
     materials |-> materials, classifications |-> classifications]

\* obj.properties[psName]?.[propName]
PropertyOf(obj, psName, propName) ==
    IF psName \in DOMAIN obj.properties
    THEN Lookup(obj.properties[psName], propName)
    ELSE None

\* A slip: the occurrence bound ignored, every missing item is a failure.
mustExistAlways(facet) == TRUE

\* facet.minOccurs !== undefined ? facet.minOccurs > 0 : true
mustExist(facet) ==
    IF IsSome(facet.minOccurs) THEN Get(facet.minOccurs) > 0 ELSE TRUE

Pass(message) == [pass |-> TRUE, message |-> message]
Fail(message) == [pass |-> FALSE, message |-> message]

\* ------------------------------------------------------- applicability

objectMatchesFacet(obj, facet) ==
    CASE facet.type = "entity" ->
            /\ (facet.entityName.type # "absent"
                    => matchesConstraint(facet.entityName, Some(obj.ifcClass)))
            /\ (facet.predefinedType.type # "absent"
                    => matchesConstraint(facet.predefinedType, obj.predefinedType))
      [] facet.type = "property" ->
            LET psName == facet.propertySet.value
                propName == facet.baseName.value
                val == PropertyOf(obj, psName, propName)
            IN
            IF psName = <<>> \/ propName = <<>> THEN TRUE
            ELSE IF ~IsSome(val) THEN FALSE
            ELSE IF facet.value.type # "absent"
                 THEN matchesConstraint(facet.value, val)
            ELSE TRUE
      [] facet.type = "attribute" ->
            LET attrName == facet.attributeName.value
                val == Lookup(obj.attributes, attrName)
            IN
            IF attrName = <<>> THEN TRUE
            ELSE IF ~IsSome(val) THEN FALSE
            ELSE IF facet.value.type # "absent"
                 THEN matchesConstraint(facet.value, val)
            ELSE TRUE
      [] facet.type = "classification" ->
            LET sysName == facet.system.value IN
            IF sysName = <<>> THEN Len(obj.classifications) > 0
            ELSE \E i \in 1..Len(obj.classifications) :
                    /\ ToUpperCase(obj.classifications[i].system)
                           = ToUpperCase(sysName)
                    /\ (facet.value.type = "absent"
                        \/ matchesConstraint(facet.value,
                                             Some(obj.classifications[i].value)))
      [] facet.type = "material" ->
            IF facet.value.type # "absent"
            THEN \E i \in 1..Len(obj.materials) :
                    matchesConstraint(facet.value, Some(obj.materials[i]))
            ELSE Len(obj.materials) > 0
      [] OTHER -> TRUE

objectMatchesApplicability(obj, applicability) ==
    \A i \in 1..Len(applicability) : objectMatchesFacet(obj, applicability[i])

\* -------------------------------------------------- requirement checking

\* Array.prototype.find on the classifications: the first entry of the system.
FirstClassification(obj, sysName) ==
    LET hits == {i \in 1..Len(obj.classifications) :
                    ToUpperCase(obj.classifications[i].system)
                        = ToUpperCase(sysName)}
    IN IF hits = {} THEN None
       ELSE Some(obj.classifications[CHOOSE i \in hits : \A j \in hits : i <= j])

checkRequirement(obj, req) ==
    LET facet == req.facet IN
    CASE facet.type = "property" ->
            LET psName == FacetFieldName(facet.propertySet)
                propName == FacetFieldName(facet.baseName)
                actual == PropertyOf(obj, psName, propName)
            IN
            IF psName = <<>> \/ propName = <<>> THEN Pass(<<"OK">>)
            ELSE IF ~IsSome(actual) THEN
                IF mustExist(facet)
                THEN Fail(<<"Propriete '">> \o psName \o <<".">> \o propName
                          \o <<"' manquante">>)
                ELSE Pass(<<"OK (optionnel)">>)
            ELSE IF facet.value.type # "absent"
                    /\ ~matchesConstraint(facet.value, actual)
                THEN Fail(<<"'">> \o psName \o <<".">> \o propName \o <<"' = '">>
                          \o Get(actual) \o <<"' -- attendu : ">>
                          \o constraintDisplayVal(facet.value))
            ELSE Pass(<<"OK">>)
      [] facet.type = "attribute" ->
            LET attrName == FacetFieldName(facet.attributeName)
                actual == Lookup(obj.attributes, attrName)
            IN
            IF attrName = <<>> THEN Pass(<<"OK">>)
            ELSE IF ~IsSome(actual)
                THEN Fail(<<"Attribut '">> \o attrName \o <<"' manquant">>)
            ELSE IF facet.value.type # "absent"
                    /\ ~matchesConstraint(facet.value, actual)
                THEN Fail(<<"'">> \o attrName \o <<"' = '">> \o Get(actual)
                          \o <<"' -- attendu : ">>
                          \o constraintDisplayVal(facet.value))
            ELSE Pass(<<"OK">>)
      [] facet.type = "classification" ->
            LET sysName == FacetFieldName(facet.system)
                match == FirstClassification(obj, sysName)
            IN
            IF sysName = <<>> THEN
                IF Len(obj.classifications) = 0
                THEN Fail(<<"Aucune classification assignee">>)
                ELSE Pass(<<"OK">>)
            ELSE IF ~IsSome(match)
                THEN Fail(<<"Classification '">> \o sysName \o <<"' manquante">>)
            ELSE IF facet.value.type # "absent"
                    /\ ~matchesConstraint(facet.value, Some(Get(match).value))
                THEN Fail(<<"Classification '">> \o sysName \o <<"' = '">>
                          \o Get(match).value \o <<"' -- attendu : ">>
                          \o constraintDisplayVal(facet.value))
            ELSE Pass(<<"OK">>)
      [] facet.type = "material" ->
            IF Len(obj.materials) = 0 THEN
                IF mustExist(facet)
                THEN Fail(<<"Aucun materiau assigne">>)
                ELSE Pass(<<"OK (optionnel)">>)
            ELSE IF facet.value.type # "absent"
                    /\ ~(\E i \in 1..Len(obj.materials) :
                            matchesConstraint(facet.value, Some(obj.materials[i])))
                THEN Fail(<<"Materiau '">> \o Join(obj.materials, <<", ">>)
                          \o <<"' ne correspond pas a '">>
                          \o constraintDisplayVal(facet.value) \o <<"'">>)
            ELSE Pass(<<"OK">>)
      [] OTHER -> Pass(<<"OK">>)


\* ============================================ requirement checks (pure)

\* One application of checkRequirement: the object and the requirement are
\* the inputs, cOut is undefined until the function has returned.
PsetName == <<"Pset_WallCommon">>
PropName == <<"IsExternal">>
AttrName == <<"Name">>
SystemName == <<"Uniclass">>

Vals == StrsUpTo(MaxValLen)

\* The shapes of obj.properties: no set, the set without the key, the set
\* with the key, the key under another set.
CheckPropertyMaps ==
    {EmptyMap,
     [s \in {PsetName} |-> [k \in {<<"LoadBearing">>} |-> <<"A">>]],
     [s \in {<<"Pset_Other">>} |-> [k \in {PropName} |-> <<"a">>]]}
    \cup {[s \in {PsetName} |-> [k \in {PropName} |-> v]] : v \in Vals}

CheckObjects ==
    {IFCObject(<<"obj-1">>, <<"IFCWALL">>, [k \in {AttrName} |-> <<"a">>],
               p, <<>>, <<>>) : p \in CheckPropertyMaps}
    \cup {IFCObject(<<"obj-2">>, <<"IFCWALL">>, EmptyMap, EmptyMap, <<v>>, <<>>) :
            v \in Vals}
    \cup {IFCObject(<<"obj-3">>, <<"IFCBEAM">>, [k \in {AttrName} |-> v], EmptyMap,
                    <<<<"a">>, v>>,
                    <<[system |-> <<"uniclass">>, value |-> v]>>) : v \in Vals}

\* The minOccurs of a facet: absent, or the number parseOccurs read, which
\* is any number the attribute spells, a negative one included.
Occurs == {None} \cup {Some(n) : n \in MinOccurs..MaxOccurs}

CheckValueConstraints ==
    {NoConstraint}
    \cup {SimpleValue(v) : v \in Vals}
    \cup {Restriction([NoRestriction EXCEPT !.pattern = Some(<<"a">>)]),
          Restriction([NoRestriction EXCEPT !.enumeration = Some(<<<<"a">>, <<"1">>>>)]),
          Restriction([NoRestriction EXCEPT !.minLength = Some(1)])}

CheckFacets ==
    {[Facet("property") EXCEPT !.propertySet = ps, !.baseName = bn,
                               !.value = v, !.minOccurs = o] :
        ps \in {NoConstraint, SimpleValue(PsetName)},
        bn \in {NoConstraint, SimpleValue(PropName)},
        v \in CheckValueConstraints, o \in Occurs}
    \cup {[Facet("attribute") EXCEPT !.attributeName = n, !.value = v,
                                     !.minOccurs = o] :
        n \in {NoConstraint, SimpleValue(AttrName)},
        v \in CheckValueConstraints, o \in Occurs}
    \cup {[Facet("material") EXCEPT !.value = v, !.minOccurs = o] :
        v \in CheckValueConstraints, o \in Occurs}
    \cup {[Facet("classification") EXCEPT !.system = n, !.value = v,
                                          !.minOccurs = o] :
        n \in {NoConstraint, SimpleValue(SystemName)},
        v \in CheckValueConstraints, o \in Occurs}
    \cup {[Facet("partOf") EXCEPT !.minOccurs = o] : o \in Occurs}

CheckInit ==
    /\ cObj \in CheckObjects
    /\ cReq \in {Requirement(<<"req-1">>, f) : f \in CheckFacets}
    /\ cOut = None

\* checkRequirement(obj, req) returns.
CheckApply ==
    /\ cOut = None
    /\ cOut' = Some(checkRequirement(cObj, cReq))
    /\ UNCHANGED <<cObj, cReq>>
    /\ UNCHANGED checkOthers


\* ================================================== validation engine

\* Array.prototype.filter, keeping the order.
RECURSIVE applicableObjects(_, _)
applicableObjects(objects, applicability) ==
    IF Len(objects) = 0 THEN <<>>
    ELSE (IF objectMatchesApplicability(Head(objects), applicability)
          THEN <<Head(objects)>> ELSE <<>>)
         \o applicableObjects(Tail(objects), applicability)

\* The messages of the requirements that fail on obj, in requirement order.
RECURSIVE failureMessages(_, _)
failureMessages(obj, requirements) ==
    IF Len(requirements) = 0 THEN <<>>
    ELSE LET r == checkRequirement(obj, Head(requirements)) IN
         (IF r.pass THEN <<>> ELSE <<r.message>>)
         \o failureMessages(obj, Tail(requirements))

\* A slip: only the first failing requirement's message is kept.
objectDetailFirstMessage(obj, spec) ==
    LET messages == failureMessages(obj, spec.requirements)
        allPass == Len(messages) = 0
    IN [objectId |-> obj.id, objectName |-> obj.name,
        status |-> IF allPass THEN "pass" ELSE "fail",
        message |-> IF allPass THEN <<"OK">> ELSE messages[1]]

\* IDSValidationDetail of one applicable object.
objectDetail(obj, spec) ==
    LET messages == failureMessages(obj, spec.requirements)
        allPass == Len(messages) = 0
    IN [objectId |-> obj.id, objectName |-> obj.name,
        status |-> IF allPass THEN "pass" ELSE "fail",
        message |-> IF allPass THEN <<"OK">> ELSE Join(messages, <<" ; ">>)]

validateSpecification(spec, objects) ==
    LET applicable == applicableObjects(objects, spec.applicability)
        details == [i \in 1..Len(applicable) |-> objectDetail(applicable[i], spec)]
    IN [specificationId |-> spec.id, specificationName |-> spec.name,
        ifcEntity |-> spec.ifcEntity, totalChecked |-> Len(details),
        passed |-> Cardinality({i \in 1..Len(details) : details[i].status = "pass"}),
        failed |-> Cardinality({i \in 1..Len(details) : details[i].status = "fail"}),
        details |-> details]

\* A slip: the percentage computed before counting the specification.
progressPctBeforeCount(done, totalSpecs) ==
    (200 * (done - 1) + totalSpecs) \div (2 * totalSpecs)

\* Math.round(((si + 1) / totalSpecs) * 100), done = si + 1.
progressPct(done, totalSpecs) == MathRoundPercent(done, totalSpecs)

\* One validateIDS call in progress: its arguments, the loop index, the
\* results pushed, the percentages passed to onProgress, and where it is
\* ("sleep": awaiting the timer that ends an iteration, "done": returned).
NewRun(idsFile, objects) ==
    [idsFile |-> idsFile, objects |-> objects, si |-> 0, results |-> <<>>,
     progress |-> <<>>, pc |-> "run"]

\* The body of the loop for index run.si, up to its await.
loopBody(run) ==
    LET totalSpecs == Len(run.idsFile.specifications)
        spec == run.idsFile.specifications[run.si + 1]
    IN [run EXCEPT
            !.results = Append(@, validateSpecification(spec, run.objects)),
            !.progress = Append(@, progressPct(run.si + 1, totalSpecs)),
            !.pc = "sleep"]

\* validateIDS(idsFile, options) up to its first await (or its return).
validateIDSCall(idsFile, objects) ==
    IF Len(idsFile.specifications) = 0
    THEN [NewRun(idsFile, objects) EXCEPT !.pc = "done"]
    ELSE loopBody(NewRun(idsFile, objects))

\* The timer of an iteration fires: si++, then the next body or the return.
validateIDSResume(run) ==
    LET next == [run EXCEPT !.si = @ + 1] IN
    IF next.si < Len(run.idsFile.specifications)
    THEN loopBody(next)
    ELSE [next EXCEPT !.pc = "done"]

\* ------------------------------------------------- files and objects

NumAtom(n) == <<"0", "1", "2", "3", "4", "5", "6", "7", "8", "9">>[n + 1]

IfcWall == <<"IFCWALL">>

\* Applicability and requirements of the i-th specification of a file:
\* walls must be external; anything with a material must be classified.
SpecApplicability(i) ==
    IF i % 2 = 1
    THEN <<[Facet("entity") EXCEPT !.entityName = SimpleValue(<<"ifcwall">>)]>>
    ELSE <<Facet("material")>>

SpecRequirements(i) ==
    IF i % 2 = 1
    THEN <<Requirement(<<"req-1">>,
              [Facet("property") EXCEPT !.propertySet = SimpleValue(PsetName),
                                        !.baseName = SimpleValue(PropName),
                                        !.value = SimpleValue(<<"true">>)]),
           Requirement(<<"req-2">>, Facet("material"))>>
    ELSE <<Requirement(<<"req-1">>,
              [Facet("classification") EXCEPT !.system = SimpleValue(SystemName)])>>

Specification(i) ==
    [id |-> <<"spec-", NumAtom(i)>>, name |-> <<"Specification ", NumAtom(i)>>,
     ifcEntity |-> IF i % 2 = 1 THEN <<"ifcwall">> ELSE <<"ANY">>,
     applicability |-> SpecApplicability(i), requirements |-> SpecRequirements(i)]

\* IDSFile f of the catalogue: f - 1 specifications, ids spec-1, spec-2, ...
IDSFile(f) ==
    [id |-> <<"lib-", NumAtom(f)>>, name |-> <<"IDS ", NumAtom(f)>>,
     specifications |-> [i \in 1..(f - 1) |-> Specification(i)]]

Files == 1..MaxFiles

\* Three of the objects of MOCK_IFC_OBJECTS, with the attribute, the
\* property and the materials the specifications of the catalogue read
\* (names in ASCII): obj-wall-1 is external, obj-wall-3 is not, both have a
\* material.
ObjWall1 ==
    IFCObject(<<"obj-wall-1">>, IfcWall, [k \in {AttrName} |-> <<"EXT-001">>],
              [s \in {PsetName} |-> [k \in {PropName} |-> <<"TRUE">>]],
              <<<<"Beton">>>>, <<>>)
ObjWall3 ==
    IFCObject(<<"obj-wall-3">>, IfcWall, [k \in {AttrName} |-> <<"INT">>],
              [s \in {PsetName} |-> [k \in {PropName} |-> <<"FALSE">>]],
              <<<<"Platre BA13">>>>, <<>>)
ObjBeam1 ==
    IFCObject(<<"obj-beam-1">>, <<"IFCBEAM">>, [k \in {AttrName} |-> <<"HEA">>],
              EmptyMap, <<<<"Acier">>>>,
              <<[system |-> <<"Uniclass">>, value |-> <<"Ss_25">>]>>)

\* A wall no mock object stands for, as a live model can hold it: not
\* external and without a material.
ObjWallBare ==
    IFCObject(<<"obj-wall-5">>, IfcWall, [k \in {AttrName} |-> <<"INT">>],
              [s \in {PsetName} |-> [k \in {PropName} |-> <<"FALSE">>]],
              <<>>, <<>>)

ModelObjects == {ObjWall1, ObjWall3, ObjWallBare, ObjBeam1}

\* Every list of distinct objects of the pool: the object sets of a run.
ObjectLists ==
    UNION {{l \in [1..k -> ModelObjects] : \A i, j \in 1..k : i # j => l[i] # l[j]} :
            k \in 0..Cardinality(ModelObjects)}

\* ========================================= one validateIDS run (engine)

ValidateInit ==
    \E f \in Files, objs \in ObjectLists :
        vRun = [NewRun(IDSFile(f), objs) EXCEPT !.pc = "idle"]

\* The caller invokes validateIDS.
ValidateCall ==
    /\ vRun.pc = "idle"
    /\ vRun' = validateIDSCall(vRun.idsFile, vRun.objects)
    /\ UNCHANGED validateOthers

\* The timer awaited at the end of an iteration fires.
ValidateTimer ==
    /\ vRun.pc = "sleep"
    /\ vRun' = validateIDSResume(vRun)
    /\ UNCHANGED validateOthers


\* ================================================ IDS Validation tab

\* The tab's React state (viewState, selectedIDS, results, validationProgress,
\* loadError, showLibrary, showExportMenu) and the asynchronous operations it
\* has started and that have not settled (pending).  selectedIDS is the
\* catalogue number of the held IDSFile, 0 for null.  resultsOf is history:
\* the file whose validation run produced the held results, 0 when none.
NoError == <<>>
ExtensionError == <<"Le fichier doit avoir l'extension .ids">>
LoadFailedError == <<"Erreur de chargement">>
FileLoadFailedError == <<"Erreur de parsing du fichier IDS">>
ValidationError == <<"Erreur pendant la validation">>

\* A thrown value: an Error with its message, or None for a value that is
\* no Error.  err instanceof Error ? err.message : fallback
messageOr(err, fallback) == IF IsSome(err) THEN Get(err) ELSE fallback

\* The statuses of a response that is not ok.
FailedStatuses == {404, 500}

\* The Error of loadIDSFromLibrary for a response that is not ok, and the
\* Error of parseIDSFromXML for a document the XML parser refuses.
FetchFailed(f, status) ==
    <<"Impossible de charger ", ToString(f), " (", ToString(status), ")">>
ParseFailed == <<"Erreur de parsing XML : ", "Start tag expected">>

\* The errors of the browser, with the messages it gives them: fetch
\* rejects (no network), resp.text() rejects (the body broke off), and
\* file.text() rejects (the file cannot be read).
NetworkFailed == <<"Failed to fetch">>
BodyFailed == <<"network error">>
FileReadFailed == <<"The requested file could not be read">>

\* The message of an Error thrown under handleRunValidation.
RunFailed == <<"x is undefined">>

\* The catalogue files the tab is given: one without and one with a
\* specification.
MaxTabFiles == 2
TabFiles == 1..MaxTabFiles

\* What getAllIFCObjects can resolve with: nothing, one wall, or the
\* model's objects.
TabObjectLists ==
    {<<>>, <<ObjWall1>>, <<ObjWall3>>, <<ObjWall1, ObjWall3, ObjBeam1>>}

NoRun == [NewRun(IDSFile(1), <<>>) EXCEPT !.pc = "none"]

\* An in-flight loadIDSFromLibrary (library) / loadIDSFromFile of catalogue
\* file f.
PendingLoad(f, library) ==
    [kind |-> "load", file |-> f, run |-> NoRun, library |-> library]

\* The TypeError of parseFacets calling a parser that is no function.
NotAFunction == <<"parser is not a function">>

\* What the load can reject with: the errors of fetch, of the status test
\* and of resp.text() in loadIDSFromLibrary, the error of file.text() in
\* loadIDSFromFile, the errors parseIDSFromXML throws, and a value that is
\* no Error (None).
LoadThrown(p) ==
    IF p.library
    THEN {Some(NetworkFailed), Some(BodyFailed)}
            \cup {Some(FetchFailed(p.file, status)) : status \in FailedStatuses}
            \cup {Some(ParseFailed), Some(NotAFunction), None}
    ELSE {Some(FileReadFailed), Some(ParseFailed), Some(NotAFunction), None}

\* Every value a load is made to reject with.
LoadErrors ==
    {Some(FetchFailed(f, status)) : f \in TabFiles, status \in FailedStatuses}
        \cup {Some(NetworkFailed), Some(BodyFailed), Some(FileReadFailed),
              Some(ParseFailed), Some(NotAFunction), None}

\* What an awaited call of handleRunValidation can throw.
RunThrown == {Some(RunFailed), None}

\* An in-flight handleRunValidation: file is the selectedIDS its closure
\* captured; run.pc = "objects" while it awaits getAllIFCObjects.
PendingRun(f, run) == [kind |-> "run", file |-> f, run |-> run]

RemoveAt(seq, i) == SubSeq(seq, 1, i - 1) \o SubSeq(seq, i + 1, Len(seq))

\* The runtime ids the viewer can tint, and the tab's colouring state: the
\* colorApplied flag and, per runtime id, the colour the viewer shows (None:
\* the object's own colour).
TintIds == {1, 3}
colourVars == <<colorApplied, tint>>

TabInit ==
    /\ viewState = "select"
    /\ selectedIDS = 0
    /\ results = <<>>
    /\ validationProgress = 0
    /\ loadError = NoError
    /\ showLibrary = FALSE
    /\ showExportMenu = FALSE
    /\ pending = <<>>
    /\ resultsOf = 0
    /\ lastFile = None
    /\ colorApplied = FALSE
    /\ tint = [id \in TintIds |-> None]

\* The main view (drop zone, library, cards) is rendered unless the PDF
\* preview replaces it.
MainView == ~(viewState = "pdf-preview" /\ selectedIDS # 0)

\* The library toggle button.
ToggleLibrary ==
    /\ MainView
    /\ showLibrary' = ~showLibrary
    /\ UNCHANGED <<viewState, selectedIDS, results, validationProgress,
                   loadError, showExportMenu, pending, resultsOf>>
    /\ UNCHANGED lastFile
    /\ UNCHANGED colourVars
    /\ UNCHANGED tabOthers

\* A click on the drop zone while the library is open only closes it.
DropZoneClick ==
    /\ MainView
    /\ showLibrary
    /\ showLibrary' = FALSE
    /\ UNCHANGED <<viewState, selectedIDS, results, validationProgress,
                   loadError, showExportMenu, pending, resultsOf>>
    /\ UNCHANGED lastFile
    /\ UNCHANGED colourVars
    /\ UNCHANGED tabOthers

\* handleSelectFromLibrary(entry), up to its await.
SelectFromLibrary(f) ==
    /\ MainView
    /\ showLibrary
    /\ Len(pending) < MaxPending
    /\ viewState' = "loading"
    /\ loadError' = NoError
    /\ showLibrary' = FALSE
    /\ pending' = Append(pending, PendingLoad(f, TRUE))
    /\ UNCHANGED <<selectedIDS, results, validationProgress, showExportMenu,
                   resultsOf>>
    /\ UNCHANGED lastFile
    /\ UNCHANGED colourVars
    /\ UNCHANGED tabOthers

\* File names are lists of parts; the last part is what endsWith looks at.
FileNames == {<<"a", ".ids">>, <<"a", ".IDS">>, <<"a", ".ids", ".xml">>}

\* String.prototype.toLowerCase over the parts of the names drawn.
NameToLowerCase(name) ==
    [i \in 1..Len(name) |-> IF name[i] = ".IDS" THEN ".ids" ELSE name[i]]

\* A slip: '.ids' looked for anywhere in the name.
hasIdsExtensionAnywhere(name) ==
    \E i \in 1..Len(name) : NameToLowerCase(name)[i] = ".ids"

\* file.name.toLowerCase().endsWith('.ids')
hasIdsExtension(name) ==
    LET lower == NameToLowerCase(name) IN
    lower # <<>> /\ lower[Len(lower)] = ".ids"

\* handleLoadFile(file) for a file that passes the extension test (drop or
\* file input), up to its await; f is what the file holds.
LoadFile(f, name) ==
    /\ MainView
    /\ hasIdsExtension(name)
    /\ lastFile' = Some(name)
    /\ Len(pending) < MaxPending
    /\ viewState' = "loading"
    /\ loadError' = NoError
    /\ pending' = Append(pending, PendingLoad(f, FALSE))
    /\ UNCHANGED <<selectedIDS, results, validationProgress, showLibrary,
                   showExportMenu, resultsOf>>
    /\ UNCHANGED colourVars
    /\ UNCHANGED tabOthers

\* handleLoadFile(file) for a file that fails the extension test.
LoadFileBadName(name) ==
    /\ MainView
    /\ ~hasIdsExtension(name)
    /\ lastFile' = Some(name)
    /\ loadError' = ExtensionError
    /\ UNCHANGED <<viewState, selectedIDS, results, validationProgress,
                   showLibrary, showExportMenu, pending, resultsOf>>
    /\ UNCHANGED colourVars
    /\ UNCHANGED tabOthers

\* The awaited load resolves with the parsed file.
LoadResolved(i) ==
    /\ pending[i].kind = "load"
    /\ selectedIDS' = pending[i].file
    /\ viewState' = "loaded"
    /\ results' = <<>>
    /\ resultsOf' = 0
    /\ pending' = RemoveAt(pending, i)
    /\ UNCHANGED <<validationProgress, loadError, showLibrary, showExportMenu>>
    /\ UNCHANGED lastFile
    /\ UNCHANGED colourVars
    /\ UNCHANGED tabOthers

\* The awaited load rejects with err (no network, response not ok, body or
\* file unreadable, malformed XML): the
\* catch block of handleSelectFromLibrary or of handleLoadFile.
LoadRejected(i, err) ==
    /\ pending[i].kind = "load"
    /\ err \in LoadThrown(pending[i])
    /\ loadError' = messageOr(err, IF pending[i].library THEN LoadFailedError
                                   ELSE FileLoadFailedError)
    /\ viewState' = "select"
    /\ pending' = RemoveAt(pending, i)
    /\ UNCHANGED <<selectedIDS, results, validationProgress, showLibrary,
                   showExportMenu, resultsOf>>
    /\ UNCHANGED lastFile
    /\ UNCHANGED colourVars
    /\ UNCHANGED tabOthers

\* handleRunValidation, up to its first await; the button is rendered with
\* a file held in view state "loaded".
RunValidation ==
    /\ MainView
    /\ selectedIDS # 0
    /\ viewState = "loaded"
    /\ Len(pending) < MaxPending
    /\ viewState' = "validating"
    /\ validationProgress' = 0
    /\ pending' = Append(pending,
            PendingRun(selectedIDS,
                       [NewRun(IDSFile(selectedIDS), <<>>) EXCEPT !.pc = "objects"]))
    /\ UNCHANGED <<selectedIDS, results, loadError, showLibrary, showExportMenu,
                   resultsOf>>
    /\ UNCHANGED lastFile
    /\ UNCHANGED colourVars
    /\ UNCHANGED tabOthers

\* setValidationProgress for the callbacks validateIDS made in this step.
ProgressAfter(before, after) ==
    IF Len(after.progress) > Len(before.progress)
    THEN after.progress[Len(after.progress)]
    ELSE validationProgress

\* handleRunValidation continues after a step of its validateIDS call: when
\* the call has returned, setResults(res) and setViewState('results').
RunContinues(i, before, after) ==
    /\ validationProgress' = ProgressAfter(before, after)
    /\ IF after.pc = "done"
       THEN /\ results' = after.results
            /\ resultsOf' = pending[i].file
            /\ viewState' = "results"
            /\ pending' = RemoveAt(pending, i)
       ELSE /\ pending' = [pending EXCEPT ![i].run = after]
            /\ UNCHANGED <<results, resultsOf, viewState>>
    /\ UNCHANGED <<selectedIDS, loadError, showLibrary, showExportMenu>>
    /\ UNCHANGED lastFile
    /\ UNCHANGED colourVars
    /\ UNCHANGED tabOthers

\* getAllIFCObjects resolves: validateIDS is called with the captured file.
ObjectsResolved(i, objects) ==
    /\ pending[i].kind = "run"
    /\ pending[i].run.pc = "objects"
    /\ RunContinues(i, pending[i].run,
                    validateIDSCall(pending[i].run.idsFile, objects))

\* The timer validateIDS awaits fires.
RunTimer(i) ==
    /\ pending[i].kind = "run"
    /\ pending[i].run.pc = "sleep"
    /\ RunContinues(i, pending[i].run, validateIDSResume(pending[i].run))

\* An awaited call of handleRunValidation throws err: its catch block.
RunThrows(i, err) ==
    /\ pending[i].kind = "run"
    /\ loadError' = messageOr(err, ValidationError)
    /\ viewState' = "loaded"
    /\ pending' = RemoveAt(pending, i)
    /\ UNCHANGED <<selectedIDS, results, validationProgress, showLibrary,
                   showExportMenu, resultsOf>>
    /\ UNCHANGED lastFile
    /\ UNCHANGED colourVars
    /\ UNCHANGED tabOthers

\* The results block (with the export menu) is rendered.
ResultsShown == MainView /\ viewState = "results" /\ Len(results) > 0

ToggleExportMenu ==
    /\ ResultsShown
    /\ showExportMenu' = ~showExportMenu
    /\ UNCHANGED <<viewState, selectedIDS, results, validationProgress,
                   loadError, showLibrary, pending, resultsOf>>
    /\ UNCHANGED lastFile
    /\ UNCHANGED colourVars
    /\ UNCHANGED tabOthers

\* handleExportPDF.
ExportPDF ==
    /\ ResultsShown
    /\ showExportMenu
    /\ showExportMenu' = FALSE
    /\ viewState' = "pdf-preview"
    /\ UNCHANGED <<selectedIDS, results, validationProgress, loadError,
                   showLibrary, pending, resultsOf>>
    /\ UNCHANGED lastFile
    /\ UNCHANGED colourVars
    /\ UNCHANGED tabOthers

\* handleExportCSV (the download itself is outside the tab's state).
ExportCSV ==
    /\ ResultsShown
    /\ showExportMenu
    /\ showExportMenu' = FALSE
    /\ UNCHANGED <<viewState, selectedIDS, results, validationProgress,
                   loadError, showLibrary, pending, resultsOf>>
    /\ UNCHANGED lastFile
    /\ UNCHANGED colourVars
    /\ UNCHANGED tabOthers

\* "Retour aux resultats" in the PDF preview.
BackToResults ==
    /\ viewState = "pdf-preview"
    /\ selectedIDS # 0
    /\ viewState' = "results"
    /\ UNCHANGED <<selectedIDS, results, validationProgress, loadError,
                   showLibrary, showExportMenu, pending, resultsOf>>
    /\ UNCHANGED lastFile
    /\ UNCHANGED colourVars
    /\ UNCHANGED tabOthers

\* The close button of the error card.
DismissError ==
    /\ MainView
    /\ loadError # NoError
    /\ loadError' = NoError
    /\ UNCHANGED <<viewState, selectedIDS, results, validationProgress,
                   showLibrary, showExportMenu, pending, resultsOf>>
    /\ UNCHANGED lastFile
    /\ UNCHANGED colourVars
    /\ UNCHANGED tabOthers

\* ------------------------------------------- colouring (IDS Validation tab)

\* handleToggleColors with a capability handle.  A click captures the
\* results and the flag of the render it was made in; the handler then
\* awaits getLoadedModels and the colour calls, one step each.

\* objectId.split('-'), last part, for the object ids of the model.
LastPart(objectId) ==
    CASE objectId = <<"obj-wall-1">> -> "1"
      [] objectId = <<"obj-wall-3">> -> "3"
      [] objectId = <<"obj-wall-5">> -> "5"
      [] objectId = <<"obj-beam-1">> -> "1"
      [] OTHER -> "x"

\* The runtime ids of the details of rs with a status in statuses.
runtimeIdsOf(rs, statuses) ==
    {Get(ParseInt(LastPart(rs[r].details[d].objectId))) :
        <<r, d>> \in {p \in (1..Len(rs)) \X (1..3) :
                        /\ p[2] <= Len(rs[p[1]].details)
                        /\ rs[p[1]].details[p[2]].status \in statuses
                        /\ IsSome(ParseInt(LastPart(rs[p[1]].details[p[2]].objectId)))}}

PendingColour(applied, rs) ==
    [kind |-> "colour", file |-> 0, run |-> NoRun, pc |-> "models",
     applied |-> applied, results |-> rs]

\* api.viewer.setObjectState({ ids }, { color }) applied by the host.
setObjectState(state, ids, color) ==
    [id \in TintIds |-> IF id \in ids THEN color ELSE state[id]]

\* allIds of the reset branch.
idsToReset(rs) == runtimeIdsOf(rs, {"pass", "fail"})

\* The colour button of the results block is clicked.
ToggleColors ==
    /\ ResultsShown
    /\ Len(pending) < MaxPending
    /\ pending' = Append(pending, PendingColour(colorApplied, results))
    /\ UNCHANGED <<viewState, selectedIDS, results, validationProgress, loadError,
                   showLibrary, showExportMenu, resultsOf, lastFile>>
    /\ UNCHANGED colourVars
    /\ UNCHANGED tabOthers

\* getLoadedModels resolves with no model: the handler returns.
ColourNoModel(i) ==
    /\ pending[i].kind = "colour"
    /\ pending[i].pc = "models"
    /\ pending' = RemoveAt(pending, i)
    /\ UNCHANGED <<viewState, selectedIDS, results, validationProgress, loadError,
                   showLibrary, showExportMenu, resultsOf, lastFile>>
    /\ UNCHANGED colourVars
    /\ UNCHANGED tabOthers

\* Where the handler waits next after getLoadedModels gave a model: the
\* branch is taken on the captured flag, and a colour helper called with
\* no id returns without a host call ("done": the handler runs to its end).
afterModels(p) ==
    IF p.applied
    THEN (IF idsToReset(p.results) = {} THEN "done" ELSE "reset")
    ELSE IF runtimeIdsOf(p.results, {"pass"}) # {} THEN "pass"
    ELSE IF runtimeIdsOf(p.results, {"fail"}) # {} THEN "fail"
    ELSE "done"

\* getLoadedModels resolves with a model.
ColourModels(i) ==
    /\ pending[i].kind = "colour"
    /\ pending[i].pc = "models"
    /\ IF afterModels(pending[i]) = "done"
       THEN /\ colorApplied' = ~pending[i].applied
            /\ pending' = RemoveAt(pending, i)
       ELSE /\ pending' = [pending EXCEPT ![i].pc = afterModels(pending[i])]
            /\ UNCHANGED colorApplied
    /\ UNCHANGED <<viewState, selectedIDS, results, validationProgress, loadError,
                   showLibrary, showExportMenu, resultsOf, lastFile, tint>>
    /\ UNCHANGED tabOthers

\* await resetObjectColorInViewer(api, modelId, allIds) returns, the host
\* having applied the state (ok) or refused it (caught); setColorApplied(false).
ColourReset(i, ok) ==
    /\ pending[i].kind = "colour"
    /\ pending[i].pc = "reset"
    /\ tint' = IF ok THEN setObjectState(tint, idsToReset(pending[i].results), None)
               ELSE tint
    /\ colorApplied' = FALSE
    /\ pending' = RemoveAt(pending, i)
    /\ UNCHANGED <<viewState, selectedIDS, results, validationProgress, loadError,
                   showLibrary, showExportMenu, resultsOf, lastFile>>
    /\ UNCHANGED tabOthers

\* await colorObjectsInViewer(api, modelId, passIds, '#10b981') returns;
\* without failing ids the handler ends with setColorApplied(true).
ColourPass(i, ok) ==
    /\ pending[i].kind = "colour"
    /\ pending[i].pc = "pass"
    /\ tint' = IF ok THEN setObjectState(tint, runtimeIdsOf(pending[i].results, {"pass"}),
                                         Some("#10b981"))
               ELSE tint
    /\ IF runtimeIdsOf(pending[i].results, {"fail"}) # {}
       THEN /\ pending' = [pending EXCEPT ![i].pc = "fail"]
            /\ UNCHANGED colorApplied
       ELSE /\ colorApplied' = TRUE
            /\ pending' = RemoveAt(pending, i)
    /\ UNCHANGED <<viewState, selectedIDS, results, validationProgress, loadError,
                   showLibrary, showExportMenu, resultsOf, lastFile>>
    /\ UNCHANGED tabOthers

\* await colorObjectsInViewer(api, modelId, failIds, '#ef4444') returns;
\* setColorApplied(true).
ColourFail(i, ok) ==
    /\ pending[i].kind = "colour"
    /\ pending[i].pc = "fail"
    /\ tint' = IF ok THEN setObjectState(tint, runtimeIdsOf(pending[i].results, {"fail"}),
                                         Some("#ef4444"))
               ELSE tint
    /\ colorApplied' = TRUE
    /\ pending' = RemoveAt(pending, i)
    /\ UNCHANGED <<viewState, selectedIDS, results, validationProgress, loadError,
                   showLibrary, showExportMenu, resultsOf, lastFile>>
    /\ UNCHANGED tabOthers

TabNext ==
    \/ ToggleLibrary
    \/ DropZoneClick
    \/ \E f \in TabFiles : SelectFromLibrary(f)
    \/ \E f \in TabFiles, name \in FileNames : LoadFile(f, name)
    \/ \E name \in FileNames : LoadFileBadName(name)
    \/ \E i \in 1..Len(pending) : LoadResolved(i)
    \/ \E i \in 1..Len(pending), err \in LoadErrors : LoadRejected(i, err)
    \/ RunValidation
    \/ \E i \in 1..Len(pending), objects \in TabObjectLists : ObjectsResolved(i, objects)
    \/ \E i \in 1..Len(pending) : RunTimer(i)
    \/ \E i \in 1..Len(pending), err \in RunThrown : RunThrows(i, err)
    \/ ToggleExportMenu
    \/ ExportPDF
    \/ ExportCSV
    \/ BackToResults
    \/ DismissError

\* =================================================== JavaScript values

\* A value received from the host: tagged by its JavaScript type.  An
\* object is a map from property names to values, an array a sequence.
Undef == [t |-> "undefined"]
Null == [t |-> "null"]
Bool(b) == [t |-> "boolean", b |-> b]
Num(n) == [t |-> "number", n |-> n]
Str(s) == [t |-> "string", s |-> s]
Arr(items) == [t |-> "array", items |-> items]
Obj(fields) == [t |-> "object", fields |-> fields]

\* Objects with one and with two properties.
Obj1(k, v) == Obj([x \in {k} |-> v])
Obj2(k1, v1, k2, v2) == Obj([x \in {k1, k2} |-> IF x = k1 THEN v1 ELSE v2])

IsNullish(v) == v.t \in {"undefined", "null"}
IsArray(v) == v.t = "array"

\* typeof v
TypeOf(v) ==
    CASE v.t = "undefined" -> "undefined"
      [] v.t = "boolean" -> "boolean"
      [] v.t = "number" -> "number"
      [] v.t = "string" -> "string"
      [] OTHER -> "object"

\* ToBoolean(v)
Truthy(v) ==
    CASE v.t = "undefined" -> FALSE
      [] v.t = "null" -> FALSE
      [] v.t = "boolean" -> v.b
      [] v.t = "number" -> v.n # 0
      [] v.t = "string" -> v.s # <<>>
      [] OTHER -> TRUE

\* v[k] for a property name k and a v that is not null or undefined: an own
\* property of an object, undefined on anything else.
Prop(v, k) ==
    IF v.t = "object" /\ k \in DOMAIN v.fields THEN v.fields[k] ELSE Undef

\* v?.[k]
OptProp(v, k) == IF IsNullish(v) THEN Undef ELSE Prop(v, k)

\* a ?? b
Coalesce(a, b) == IF IsNullish(a) THEN b ELSE a

\* ================================================= selection normalizing

Returns(value) == [throws |-> FALSE, value |-> value]
Throws == [throws |-> TRUE, value |-> <<>>]

\* data.flatMap(d => d.modelObjectIds): reading the property of null or
\* undefined throws; an array is spread, anything else kept as one element.
RECURSIVE flatMapModelObjectIds(_)
flatMapModelObjectIds(items) ==
    IF Len(items) = 0 THEN Returns(<<>>)
    ELSE IF IsNullish(Head(items)) THEN Throws
    ELSE LET m == Prop(Head(items), "modelObjectIds")
             rest == flatMapModelObjectIds(Tail(items))
         IN IF rest.throws THEN Throws
            ELSE Returns((IF IsArray(m) THEN m.items ELSE <<m>>) \o rest.value)

normalizeSelection(data) ==
    IF ~Truthy(data) THEN Returns(<<>>)
    ELSE IF IsArray(data) THEN
        IF Len(data.items) > 0
           /\ Truthy(OptProp(data.items[1], "modelId"))
           /\ Truthy(OptProp(data.items[1], "objectRuntimeIds"))
        THEN Returns(data.items)
        ELSE IF Len(data.items) > 0
                /\ Truthy(OptProp(data.items[1], "modelObjectIds"))
        THEN flatMapModelObjectIds(data.items)
        ELSE Returns(<<>>)
    ELSE IF Truthy(Prop(data, "modelId")) /\ Truthy(Prop(data, "objectRuntimeIds"))
        THEN Returns(<<Obj2("modelId", Prop(data, "modelId"),
                            "objectRuntimeIds", Prop(data, "objectRuntimeIds"))>>)
    ELSE IF Truthy(Prop(data, "modelObjectIds"))
            /\ IsArray(Prop(data, "modelObjectIds"))
        THEN Returns(Prop(data, "modelObjectIds").items)
    ELSE Returns(<<>>)

\* Selection records and wrappers as the host sends them.
SelRec(model, ids) ==
    Obj2("modelId", Str(<<model>>), "objectRuntimeIds", Arr(ids))
SelWrapper(list) == Obj1("modelObjectIds", Arr(list))

Rec1 == SelRec("m1", <<Num(1), Num(2)>>)
Rec2 == SelRec("m2", <<Num(3)>>)

\* What an element of a selection array, or a lone selection value, can be.
SelectionElements ==
    {Rec1, Rec2, SelWrapper(<<Rec1>>), SelWrapper(<<Rec2, Rec1>>), SelWrapper(<<>>),
     Null, Num(5), Obj(EmptyMap), Obj1("modelId", Str(<<"m1">>)),
     Obj1("modelObjectIds", Str(<<"x">>))}

\* Longest selection array drawn.
MaxSelLen == 2

NormalizeInputs ==
    {Undef, Null, Num(0), Num(5), Str(<<>>), Str(<<"x">>), Bool(FALSE), Bool(TRUE)}
    \cup SelectionElements
    \cup {Arr(l) : l \in UNION {[1..k -> SelectionElements] : k \in 0..MaxSelLen}}

NormalizeInit ==
    /\ nIn \in NormalizeInputs
    /\ nOut = None

\* normalizeSelection(data) returns or throws.
NormalizeApply ==
    /\ nOut = None
    /\ nOut' = Some(normalizeSelection(nIn))
    /\ UNCHANGED nIn
    /\ UNCHANGED normalizeOthers

\* ================================================ host-connection hook

\* The variables of the selection poll.
pollVars == <<tcPoll, tcTicks, tcPending, tcLastPoll>>

Tokens == {"t1", "t2"}

\* What requestPermission('accesstoken') resolves with.
PermissionResults == {"pending", "denied"} \cup Tokens

\* What getSelection() resolves with at connection time.
InitialSelections == {Undef, Arr(<<>>), Arr(<<Rec1>>), SelWrapper(<<Rec2>>)}

\* What a viewer.selectionChanged event carries.
EventSelections == {Arr(<<>>), Arr(<<Rec2>>), Arr(<<SelWrapper(<<Rec1>>), Null>>)}

Project(id, name, location) == [id |-> id, name |-> name, location |-> location]

\* The project the host reports.
HostProject == Project("p1", "Projet", "northAmerica")

InitialHookState ==
    [isConnected |-> FALSE, isEmbedded |-> FALSE, project |-> None,
     accessToken |-> None, selection |-> <<>>, api |-> None]

\* A slip: the stand-in state marked as embedded.
StandaloneHookStateEmbedded ==
    [isConnected |-> TRUE, isEmbedded |-> TRUE,
     project |-> Some(Project("mock-project-id", "Dev local", "europe")),
     accessToken |-> Some("mock-token"), selection |-> <<>>, api |-> None]

StandaloneHookState ==
    [isConnected |-> TRUE, isEmbedded |-> FALSE,
     project |-> Some(Project("mock-project-id", "Dev local", "europe")),
     accessToken |-> Some("mock-token"), selection |-> <<>>, api |-> None]

\* tcEnv: whether the frame is nested and whether an SDK global exists.
\* tcPc: where the connect effect is.  tcLocal: the locals project and
\* accessToken of the connect continuation.  tcPushed is history: the token
\* of the last extension.accessToken event.  tcApiRef: whether apiRef holds
\* the handle.  tcConnects: calls of sdk.connect so far.  tcPoll: whether
\* the polling interval is scheduled.  tcTicks: ticks fired.  tcPending:
\* getSelection queries of ticks not yet settled.  tcLastPoll: what the
\* last settled query of a tick gave.
ConnectInit ==
    /\ tcEnv \in [isInIframe : BOOLEAN, sdk : BOOLEAN]
    /\ tcPc = "mount"
    /\ tcState = InitialHookState
    /\ tcLocal = [project |-> None, accessToken |-> None]
    /\ tcPushed = None
    /\ tcApiRef = FALSE /\ tcConnects = 0
    /\ tcPoll = "off" /\ tcTicks = 0 /\ tcPending = 0 /\ tcLastPoll = None

\* The connect effect runs on mount.
Mount ==
    /\ tcPc = "mount"
    /\ IF tcEnv.isInIframe /\ tcEnv.sdk
       THEN tcPc' = "connecting" /\ tcConnects' = tcConnects + 1
            /\ UNCHANGED tcState
       ELSE tcPc' = "standalone" /\ tcState' = StandaloneHookState
            /\ UNCHANGED tcConnects
    /\ UNCHANGED <<tcEnv, tcLocal, tcPushed>>
    /\ UNCHANGED <<tcApiRef, pollVars>>
    /\ UNCHANGED connectOthers

\* sdk.connect resolves: the handle is kept, the project is requested.
ConnectResolved ==
    /\ tcPc = "connecting"
    /\ tcPc' = "project"
    /\ tcApiRef' = TRUE
    /\ UNCHANGED <<tcEnv, tcState, tcLocal, tcPushed>>
    /\ UNCHANGED <<tcConnects, pollVars>>
    /\ UNCHANGED connectOthers

\* sdk.connect rejects.
ConnectRejected ==
    /\ tcPc = "connecting"
    /\ tcPc' = "failed"
    /\ tcState' = [tcState EXCEPT !.isConnected = FALSE]
    /\ UNCHANGED <<tcEnv, tcLocal, tcPushed>>
    /\ UNCHANGED <<tcApiRef, tcConnects, pollVars>>
    /\ UNCHANGED connectOthers

\* getCurrentProject settles (project = None: it rejected).
ProjectSettled(project) ==
    /\ tcPc = "project"
    /\ tcLocal' = [tcLocal EXCEPT !.project = project]
    /\ tcPc' = "permission"
    /\ UNCHANGED <<tcEnv, tcState, tcPushed>>
    /\ UNCHANGED <<tcApiRef, tcConnects, pollVars>>
    /\ UNCHANGED connectOthers

\* requestPermission resolves with a status or a token.
PermissionResolved(token) ==
    /\ tcPc = "permission"
    /\ tcLocal' = [tcLocal EXCEPT !.accessToken =
                        IF token # "pending" /\ token # "denied"
                        THEN Some(token) ELSE None]
    /\ tcPc' = "selection"
    /\ UNCHANGED <<tcEnv, tcState, tcPushed>>
    /\ UNCHANGED <<tcApiRef, tcConnects, pollVars>>
    /\ UNCHANGED connectOthers

\* requestPermission rejects.
PermissionRejected ==
    /\ tcPc = "permission"
    /\ tcPc' = "selection"
    /\ UNCHANGED <<tcEnv, tcState, tcLocal, tcPushed>>
    /\ UNCHANGED <<tcApiRef, tcConnects, pollVars>>
    /\ UNCHANGED connectOthers

\* setState({...}) at the end of the connect continuation.
Publish(initialSelection) ==
    /\ tcState' = [isConnected |-> TRUE, isEmbedded |-> TRUE,
                   project |-> tcLocal.project,
                   accessToken |-> tcLocal.accessToken,
                   selection |-> initialSelection, api |-> Some("api")]
    /\ tcPc' = "connected"
    /\ UNCHANGED <<tcEnv, tcLocal, tcPushed>>
    /\ UNCHANGED <<tcApiRef, tcConnects, pollVars>>
    /\ UNCHANGED connectOthers

\* The initial getSelection resolves; a throw of normalizeSelection is
\* caught like a rejection.
SelectionResolved(raw) ==
    /\ tcPc = "selection"
    /\ LET n == normalizeSelection(raw) IN
       Publish(IF n.throws THEN <<>> ELSE n.value)

\* The initial getSelection rejects.
SelectionRejected ==
    /\ tcPc = "selection"
    /\ Publish(<<>>)

\* The host has the event callback from the moment connect has resolved.
Listening == tcPc \in {"project", "permission", "selection", "connected"}

\* handleEvent('extension.accessToken', token)
TokenEvent(token) ==
    /\ Listening
    /\ tcState' = [tcState EXCEPT !.accessToken = Some(token)]
    /\ tcPushed' = Some(token)
    /\ UNCHANGED <<tcEnv, tcPc, tcLocal>>
    /\ UNCHANGED <<tcApiRef, tcConnects, pollVars>>
    /\ UNCHANGED connectOthers

\* handleEvent('viewer.selectionChanged', data); when normalizeSelection
\* throws, the handler ends before its setState.
SelectionEvent(data) ==
    /\ Listening
    /\ LET n == normalizeSelection(data) IN
       tcState' = IF n.throws THEN tcState
                  ELSE [tcState EXCEPT !.selection = n.value]
    /\ UNCHANGED <<tcEnv, tcPc, tcLocal, tcPushed>>
    /\ UNCHANGED <<tcApiRef, tcConnects, pollVars>>
    /\ UNCHANGED connectOthers

\* JSON.stringify as far as equality of the texts goes: a property whose
\* value is undefined is left out, undefined in an array is written null.
RECURSIVE JSONStringify(_)
JSONStringify(v) ==
    CASE v.t = "array" ->
            Arr([i \in 1..Len(v.items) |->
                    IF v.items[i].t = "undefined" THEN Null
                    ELSE JSONStringify(v.items[i])])
      [] v.t = "object" ->
            Obj([k \in {x \in DOMAIN v.fields : v.fields[x].t # "undefined"} |->
                    JSONStringify(v.fields[k])])
      [] OTHER -> v

MaxTicks == 2

\* The polling effect, run again when state.isEmbedded has changed: the
\* interval is set when apiRef holds the handle and the state is embedded.
PollingEffect ==
    /\ tcPoll = "off"
    /\ tcApiRef /\ tcState.isEmbedded
    /\ tcPoll' = "scheduled"
    /\ UNCHANGED <<tcEnv, tcPc, tcState, tcLocal, tcPushed, tcApiRef, tcConnects,
                   tcTicks, tcPending, tcLastPoll>>
    /\ UNCHANGED connectOthers

\* The interval fires: getSelection is called.
PollTick ==
    /\ tcPoll = "scheduled"
    /\ tcTicks < MaxTicks
    /\ tcTicks' = tcTicks + 1
    /\ tcPending' = tcPending + 1
    /\ UNCHANGED <<tcEnv, tcPc, tcState, tcLocal, tcPushed, tcApiRef, tcConnects,
                   tcPoll, tcLastPoll>>
    /\ UNCHANGED connectOthers

\* A slip: the selection replaced on every tick.
pollUpdateAlways(s, selection) == [s EXCEPT !.selection = selection]

\* A slip: a tick that never replaces the selection.
pollUpdateNever(s, selection) == s

\* setState(s => ...) of a tick: s itself when both selections give the
\* same text.
pollUpdate(s, selection) ==
    IF JSONStringify(Arr(s.selection)) = JSONStringify(Arr(selection)) THEN s
    ELSE [s EXCEPT !.selection = selection]

\* The getSelection of a tick resolves; a throw of normalizeSelection is
\* caught.
PollResolved(raw) ==
    /\ tcPending > 0
    /\ tcPending' = tcPending - 1
    /\ tcLastPoll' = Some([outcome |-> "resolved", raw |-> raw])
    /\ LET n == normalizeSelection(raw) IN
       tcState' = IF n.throws THEN tcState ELSE pollUpdate(tcState, n.value)
    /\ UNCHANGED <<tcEnv, tcPc, tcLocal, tcPushed, tcApiRef, tcConnects, tcPoll,
                   tcTicks>>
    /\ UNCHANGED connectOthers

\* The getSelection of a tick rejects: caught, nothing else happens.
PollRejected ==
    /\ tcPending > 0
    /\ tcPending' = tcPending - 1
    /\ tcLastPoll' = Some([outcome |-> "rejected", raw |-> Undef])
    /\ UNCHANGED <<tcEnv, tcPc, tcState, tcLocal, tcPushed, tcApiRef, tcConnects,
                   tcPoll, tcTicks>>
    /\ UNCHANGED connectOthers

\* What getSelection() resolves with on a tick.
PollSelections ==
    {Arr(<<>>), Arr(<<Rec1>>), Arr(<<SelWrapper(<<Rec1>>), Null>>),
     Arr(<<SelWrapper(<<Rec2, Null>>)>>), Arr(<<SelWrapper(<<Rec2>>), Num(5)>>)}

ConnectNext ==
    \/ Mount
    \/ ConnectResolved
    \/ ConnectRejected
    \/ \E p \in {None, Some(HostProject)} : ProjectSettled(p)
    \/ \E t \in PermissionResults : PermissionResolved(t)
    \/ PermissionRejected
    \/ \E raw \in InitialSelections : SelectionResolved(raw)
    \/ SelectionRejected
    \/ \E t \in Tokens : TokenEvent(t)
    \/ \E d \in EventSelections : SelectionEvent(d)
    \/ PollingEffect
    \/ PollTick
    \/ \E raw \in PollSelections : PollResolved(raw)
    \/ PollRejected


\* ======================================================= viewer bridge

\* The JavaScript value of a number Number gave.
NumberValue(x) ==
    IF x.kind = "int" THEN Num(x.v) ELSE [t |-> "number", real |-> x]

\* collectRuntimeIds(nodes): the numeric runtimeId ?? id of every node that
\* is an object, then those of its children, depth first.
RECURSIVE collectRuntimeIds(_)
collectRuntimeIds(nodes) ==
    IF Len(nodes) = 0 THEN <<>>
    ELSE LET n == Head(nodes) IN
         IF ~Truthy(n) \/ TypeOf(n) # "object"
         THEN collectRuntimeIds(Tail(nodes))
         ELSE LET rid == Coalesce(Prop(n, "runtimeId"), Prop(n, "id"))
                  own == IF TypeOf(rid) = "number" THEN <<rid>> ELSE <<>>
                  kids == IF IsArray(Prop(n, "children"))
                          THEN collectRuntimeIds(Prop(n, "children").items)
                          ELSE <<>>
              IN own \o kids \o collectRuntimeIds(Tail(nodes))

\* if (!isNaN(Number(id))) ids.push(Number(id)), for the number r that
\* Number(id) is.
pushNumber(r) == IF r.kind # "NaN" THEN <<NumberValue(r)>> ELSE <<>>

\* The ids pushed by the loop over an array of objects.
RECURSIVE itemIds(_)
itemIds(items) ==
    IF Len(items) = 0 THEN <<>>
    ELSE LET item == Head(items) IN
         IF ~Truthy(item) \/ TypeOf(item) # "object" THEN itemIds(Tail(items))
         ELSE LET id == Coalesce(Prop(item, "runtimeId"),
                            Coalesce(Prop(item, "id"), Prop(item, "objectRuntimeId")))
                  own == IF TypeOf(id) = "number" THEN <<id>>
                         ELSE IF TypeOf(id) = "string"
                         THEN pushNumber(StringToNumber(id.s))
                         ELSE <<>>
              IN own \o itemIds(Tail(items))

WrapperKeys == <<"data", "items", "objects", "entities", "objectRuntimeIds">>

\* if (ids.length > 0) return ids; and what the code goes on to otherwise.
returnIfAny(ids, otherwise) == IF Len(ids) > 0 THEN ids ELSE otherwise

RECURSIVE extractRuntimeIdsFromResult(_)
RECURSIVE extractFromKeys(_, _)

\* The loop over the wrapper keys from key number k on.
extractFromKeys(obj, k) ==
    IF k > Len(WrapperKeys) THEN <<>>
    ELSE returnIfAny(IF IsArray(Prop(obj, WrapperKeys[k]))
                     THEN extractRuntimeIdsFromResult(Prop(obj, WrapperKeys[k]))
                     ELSE <<>>,
                     extractFromKeys(obj, k + 1))

extractRuntimeIdsFromResult(result) ==
    IF ~Truthy(result) THEN <<>>
    ELSE IF IsArray(result) /\ Len(result.items) > 0
            /\ TypeOf(result.items[1]) = "number"
    THEN result.items
    ELSE IF IsArray(result) /\ Len(result.items) > 0
            /\ TypeOf(result.items[1]) = "object"
    THEN returnIfAny(itemIds(result.items), collectRuntimeIds(result.items))
    ELSE IF TypeOf(result) = "object" /\ ~IsArray(result)
    THEN extractFromKeys(result, 1)
    ELSE <<>>

\* A host call: the capability and, for getHierarchyChildren, the hint.
HostCall(op, arg) == [op |-> op, arg |-> arg]

\* A slip: 'containment' is asked before 'spatial'.
HierarchyTypesSwapped == <<"containment", "spatial", "storey", "type", "">>

HierarchyTypes == <<"spatial", "containment", "storey", "type", "">>

\* The host calls getAllModelRuntimeIds can issue, in the order of the code,
\* for a viewer with the capabilities caps.
Attempts(caps) ==
    (IF caps.getObjects THEN <<HostCall("getObjects", "")>> ELSE <<>>)
    \o (IF caps.getEntities THEN <<HostCall("getEntities", "")>> ELSE <<>>)
    \o [i \in 1..Len(HierarchyTypes) |->
            HostCall("getHierarchyChildren", HierarchyTypes[i])]

\* result.length > 0 for what the loop of collectRuntimeIds can go over,
\* an array or a string.  Any other value has no length, or has one and
\* is not iterable: the loop throws and the catch goes on to the next
\* attempt, as it does without a length.
HasElements(result) ==
    \/ IsArray(result) /\ Len(result.items) > 0
    \/ TypeOf(result) = "string" /\ Len(result.s) > 0

\* What for (const n of result) goes over: the items of an array, the
\* characters of a string.
Iterated(result) ==
    IF IsArray(result) THEN result.items
    ELSE [i \in 1..Len(result.s) |-> Str(<<result.s[i]>>)]

\* if (ids.length > 0) return ids, of an attempt: None when it goes on.
someIfAny(ids) == IF Len(ids) > 0 THEN Some(ids) ELSE None

\* The ids an attempt returns for the response, None when it goes on to the
\* next attempt.
attemptIds(call, result) ==
    IF call.op = "getHierarchyChildren"
    THEN IF Truthy(result) /\ HasElements(result)
         THEN Some(collectRuntimeIds(Iterated(result))) ELSE None
    ELSE someIfAny(extractRuntimeIdsFromResult(result))

\* The six mutation helpers.
MutationHelpers ==
    {"setObjectVisibility", "selectObjectsInViewer", "colorObjectsInViewer",
     "resetObjectColorInViewer", "isolateObjectsInViewer", "toggleModelVisibility"}

\* The host capability a one-call helper uses.
HelperOp(fn) ==
    CASE fn = "selectObjectsInViewer" -> "setSelection"
      [] fn = "isolateObjectsInViewer" -> "isolateEntities"
      [] OTHER -> "setObjectState"

\* A slip: removeModel awaited outside any try block.
TryBlocksWithoutRemoveModel ==
    {"setObjectState", "setSelection", "isolateEntities", "toggleModel",
     "getObjects", "getEntities", "getHierarchyChildren"}

\* The host capabilities whose every await sits inside a try block with a
\* catch that only logs.
TryBlocks ==
    {"setObjectState", "setSelection", "isolateEntities", "toggleModel",
     "getObjects", "getEntities", "getHierarchyChildren", "removeModel"}

Capabilities ==
    [getObjects : BOOLEAN, getEntities : BOOLEAN,
     toggleModel : BOOLEAN, removeModel : BOOLEAN]

BridgeCall(fn, api, runtimeIds, visible) ==
    [fn |-> fn, api |-> api, runtimeIds |-> runtimeIds, visible |-> visible]

BridgeCalls ==
    {BridgeCall(fn, api, ids, visible) :
        fn \in MutationHelpers, api \in {None} \cup {Some(c) : c \in Capabilities},
        ids \in {<<>>, <<1, 2>>}, visible \in BOOLEAN}
    \cup {BridgeCall("getAllModelRuntimeIds", Some(c), <<>>, TRUE) : c \in Capabilities}

\* Node and item shapes the host answers with.
DiscoveryResults ==
    {Undef,
     Arr(<<>>),
     Arr(<<Num(1), Num(2)>>),
     Arr(<<Obj1("name", Str(<<"x">>))>>),
     Str(<<"a", "b", "c">>),
     Arr(<<Obj1("id", Str(<<" ", "U+00A0", "7">>)), Null,
           Obj1("id", Str(<<"1", ".", "5">>)), Obj1("id", Str(<<"x">>))>>),
     Arr(<<Obj2("runtimeId", Num(3), "children", Arr(<<Obj1("id", Num(4))>>))>>),
     Obj1("items", Arr(<<Num(5)>>))}

\* bPc: "idle" before the call; the pending await ("mutation", "toggleModel",
\* "discover", "setObjectState", "removeModel"); "done" once settled.
\* bAttempt: the number of the pending discovery attempt.  bLog: the host
\* calls issued with their outcome.  bOut: how the returned promise
\* settled.  bFound: what getAllModelRuntimeIds returned.
BridgeInit ==
    /\ bCall \in BridgeCalls
    /\ bPc = "idle"
    /\ bAttempt = 0
    /\ bLog = <<>>
    /\ bOut = "pending"
    /\ bFound = None

Settle(outcome) ==
    /\ bPc' = "done"
    /\ bOut' = outcome
    /\ bAttempt' = 0

Await(pc, attempt) ==
    /\ bPc' = pc
    /\ bAttempt' = attempt
    /\ bOut' = "pending"

\* A slip: removeModel tried when showing too.
RemoveModelEvenWhenShowing ==
    IF Get(bCall.api).removeModel
    THEN Await("removeModel", 0) ELSE Settle("resolved")

\* The third strategy of toggleModelVisibility and its end.
RemoveModelOrGiveUp ==
    IF ~bCall.visible /\ Get(bCall.api).removeModel
    THEN Await("removeModel", 0) ELSE Settle("resolved")

\* getAllModelRuntimeIds returned ids to its caller.
DiscoveryReturns(ids) ==
    /\ bFound' = Some(ids)
    /\ IF bCall.fn = "getAllModelRuntimeIds" THEN Settle("resolved")
       ELSE IF Len(ids) > 0 THEN Await("setObjectState", 0)
       ELSE RemoveModelOrGiveUp

\* The discovery attempt after number k, or the empty return.
NextAttempt(k) ==
    IF k < Len(Attempts(Get(bCall.api)))
    THEN Await("discover", k + 1) /\ UNCHANGED bFound
    ELSE DiscoveryReturns(<<>>)

\* The host call the pending await waits for.
PendingCall ==
    CASE bPc = "mutation" -> HostCall(HelperOp(bCall.fn), "")
      [] bPc = "discover" -> Attempts(Get(bCall.api))[bAttempt]
      [] OTHER -> HostCall(bPc, "")

Logged(outcome, result) ==
    bLog' = Append(bLog, [call |-> PendingCall, outcome |-> outcome,
                          result |-> result])

\* The helper is called and runs to its first await or to its return.
BridgeStart ==
    /\ bPc = "idle"
    /\ IF bCall.api = None THEN Settle("resolved")
       ELSE IF bCall.fn \in {"colorObjectsInViewer", "resetObjectColorInViewer"}
               /\ Len(bCall.runtimeIds) = 0 THEN Settle("resolved")
       ELSE IF bCall.fn = "toggleModelVisibility"
       THEN IF Get(bCall.api).toggleModel THEN Await("toggleModel", 0)
            ELSE Await("discover", 1)
       ELSE IF bCall.fn = "getAllModelRuntimeIds" THEN Await("discover", 1)
       ELSE Await("mutation", 0)
    /\ UNCHANGED <<bCall, bLog, bFound>>
    /\ UNCHANGED bridgeOthers

Awaiting == bPc \notin {"idle", "done"}

\* After a discovery attempt: its ids are returned, or the next attempt
\* is made.
AfterAttempt(found) ==
    IF IsSome(found) THEN DiscoveryReturns(Get(found)) ELSE NextAttempt(bAttempt)

\* The pending host call resolves with result.
HostResolves(result) ==
    /\ Awaiting
    /\ bPc = "discover" \/ result = Undef
    /\ Logged("resolved", result)
    /\ IF bPc = "discover"
       THEN AfterAttempt(attemptIds(PendingCall, result))
       ELSE Settle("resolved") /\ UNCHANGED bFound
    /\ UNCHANGED bCall
    /\ UNCHANGED bridgeOthers

\* The pending host call rejects: caught and logged inside a try block,
\* raised to the caller otherwise.
HostRejects ==
    /\ Awaiting
    /\ Logged("rejected", Undef)
    /\ IF PendingCall.op \notin TryBlocks THEN Settle("rejected") /\ UNCHANGED bFound
       ELSE CASE bPc = "discover" -> NextAttempt(bAttempt)
              [] bPc = "toggleModel" -> Await("discover", 1) /\ UNCHANGED bFound
              [] bPc = "setObjectState" -> RemoveModelOrGiveUp /\ UNCHANGED bFound
              [] OTHER -> Settle("resolved") /\ UNCHANGED bFound
    /\ UNCHANGED bCall
    /\ UNCHANGED bridgeOthers

BridgeNext ==
    \/ BridgeStart
    \/ \E result \in DiscoveryResults : HostResolves(result)
    \/ HostRejects


\* ======================================================== explorer tab

\* A node id is the list of its parts between hyphens.  The tree is the
\* fallback tree cut down to one model, two levels and three rooms.
RootId == <<"root">>
ModelId == <<"model", "1">>
Level0 == <<"level", "0">>
Level1 == <<"level", "1">>
Room01 == <<"room", "0", "1">>
Room02 == <<"room", "0", "2">>
Room11 == <<"room", "1", "1">>

TreeNodes == {RootId, ModelId, Level0, Level1, Room01, Room02, Room11}

NodeChildren(id) ==
    CASE id = RootId -> <<ModelId>>
      [] id = ModelId -> <<Level0, Level1>>
      [] id = Level0 -> <<Room01, Room02>>
      [] id = Level1 -> <<Room11>>
      [] OTHER -> <<>>

NodeType(id) ==
    CASE id = RootId -> "project"
      [] id = ModelId -> "model"
      [] id \in {Level0, Level1} -> "level"
      [] OTHER -> "room"

RECURSIVE collectNodeRuntimeIds(_)
RECURSIVE collectChildrenRuntimeIds(_)

collectChildrenRuntimeIds(children) ==
    IF Len(children) = 0 THEN <<>>
    ELSE collectNodeRuntimeIds(Head(children))
         \o collectChildrenRuntimeIds(Tail(children))

collectNodeRuntimeIds(id) ==
    LET runtimeId == ParseInt(id[Len(id)])
    IN (IF IsSome(runtimeId) THEN <<Get(runtimeId)>> ELSE <<>>)
       \o collectChildrenRuntimeIds(NodeChildren(id))

RECURSIVE findNodeInTree(_, _)
RECURSIVE findNodeInChildren(_, _)

findNodeInChildren(children, id) ==
    IF Len(children) = 0 THEN FALSE
    ELSE findNodeInTree(Head(children), id) \/ findNodeInChildren(Tail(children), id)

\* Whether the subtree at tree holds the node id.
findNodeInTree(tree, id) ==
    tree = id \/ findNodeInChildren(NodeChildren(tree), id)

\* The first model under the root that is, or holds, the node.
getModelIdFromNode(id) ==
    LET models == NodeChildren(RootId)
        hits == {k \in 1..Len(models) : findNodeInTree(models[k], id)}
    IN IF hits = {} THEN None
       ELSE Some(models[CHOOSE k \in hits : \A j \in hits : k <= j])

HostPush(fn, modelId, runtimeIds, visible) ==
    [fn |-> fn, modelId |-> modelId, runtimeIds |-> runtimeIds, visible |-> visible]

\* const newVisible = !tn.visible, tn being the flipped copy of the node.
pushedVisible(copyVisible) == ~copyVisible

\* exVisible: the visible flag of every node of the held tree.  exPush: the
\* bridge call made by the last handler, None when it made none.  exLast is
\* history: the node of the last toggle and whether its state updater ran
\* inside the handler, None when the last handler was no toggle.
ExplorerInit ==
    /\ exVisible = [n \in TreeNodes |-> TRUE]
    /\ exPush = None
    /\ exLast = None

\* toggleVisibility(nodeId) with a capability handle.  The updater given to
\* setTreeData runs inside the call (eager) or at the next render; only in
\* the first case is targetNode set when the handler reads it.
ToggleVisibility(nodeId, eager) ==
    /\ exVisible' = [exVisible EXCEPT ![nodeId] = ~exVisible[nodeId]]
    /\ exLast' = Some([node |-> nodeId, eager |-> eager])
    /\ LET copyVisible == ~exVisible[nodeId]
           newVisible == pushedVisible(copyVisible)
           modelId == getModelIdFromNode(nodeId)
           runtimeIds == collectNodeRuntimeIds(nodeId)
       IN exPush' =
            IF ~eager THEN None
            ELSE IF NodeType(nodeId) = "model"
            THEN Some(HostPush("toggleModelVisibility", nodeId, <<>>, newVisible))
            ELSE IF IsSome(modelId) /\ Len(runtimeIds) > 0
            THEN Some(HostPush("setObjectVisibility", Get(modelId), runtimeIds,
                               newVisible))
            ELSE None
    /\ UNCHANGED explorerOthers

\* The bridge call handleShowAll / handleHideAll makes for a model under
\* the root: none when the model gives no runtime id.
modelPush(model, visible) ==
    LET rids == collectNodeRuntimeIds(model)
    IN IF Len(rids) > 0
       THEN Some(HostPush("setObjectVisibility", model, rids, visible))
       ELSE None

\* What both handlers do with a capability handle: every flag of the tree
\* is set and each model under the root is pushed; the tree has one model.
setAllVisible(visible) ==
    /\ exVisible' = [n \in TreeNodes |-> visible]
    /\ exPush' = modelPush(NodeChildren(RootId)[1], visible)
    /\ exLast' = None
    /\ UNCHANGED explorerOthers

\* handleShowAll()
handleShowAll == setAllVisible(TRUE)

\* handleHideAll()
handleHideAll == setAllVisible(FALSE)

ExplorerNext ==
    \/ \E nodeId \in TreeNodes, eager \in BOOLEAN : ToggleVisibility(nodeId, eager)
    \/ handleShowAll
    \/ handleHideAll

\* ========================================================== IDS parser

\* A child element of an applicability or requirements block: its local
\* name and its minOccurs attribute (None when it has none).  The children
\* drawn carry no sub-elements, so every value constraint parses as absent.
Element(localName, minOccurs) == [localName |-> localName, minOccurs |-> minOccurs]

\* child.localName.toLowerCase() over the names drawn.
ToLowerCaseTag(tag) ==
    CASE tag = "partOf" -> "partof"
      [] tag = "Entity" -> "entity"
      [] OTHER -> tag

\* How a call ends: it returns a value or throws an error.
Returned(v) == [threw |-> FALSE, value |-> v]
Threw(e) == [threw |-> TRUE, error |-> e]

\* The keys of FACET_PARSERS.
FacetParserKeys ==
    {"entity", "property", "attribute", "classification", "material", "partOf"}

\* FACET_PARSERS[tag]: the parser stored under an own key; what the object
\* literal inherits from Object.prototype under a lower-case name, the
\* function Object under "constructor" and Object.prototype itself under
\* "__proto__"; undefined (None) otherwise.
FacetParserFor(tag) ==
    IF tag \in FacetParserKeys THEN Some(tag)
    ELSE IF tag = "constructor" THEN Some("Object")
    ELSE IF tag = "__proto__" THEN Some("Object.prototype")
    ELSE None

\* typeof parser === 'function'
IsFunction(parser) == parser # "Object.prototype"

\* parseOccurs(val)
parseOccurs(val) ==
    IF val = None THEN None ELSE NumberOf(Get(val))

\* parser(child): the facet of the parser's kind; parseEntityFacet reads no
\* minOccurs; Object(child) is the element itself, which has no type.
parseFacet(parser, child) ==
    IF parser = "Object" THEN Facet("undefined")
    ELSE IF parser = "entity" THEN Facet("entity")
    ELSE [Facet(parser) EXCEPT !.minOccurs = parseOccurs(child.minOccurs)]

\* parseFacets(container): the facets of the children with a truthy
\* parser, or the TypeError of the first child whose parser is no function.
RECURSIVE parseFacets(_)
parseFacets(children) ==
    IF Len(children) = 0 THEN Returned(<<>>)
    ELSE LET parser == FacetParserFor(ToLowerCaseTag(Head(children).localName))
             rest == parseFacets(Tail(children))
         IN IF parser = None THEN rest
            ELSE IF ~IsFunction(Get(parser)) THEN Threw(NotAFunction)
            ELSE IF rest.threw THEN rest
            ELSE Returned(<<parseFacet(Get(parser), Head(children))>> \o rest.value)

\* reqFacets.map(facetToRequirement) with reqCounter at 0 before the first.
facetsToRequirements(reqFacets) ==
    [k \in 1..Len(reqFacets) |-> Requirement(<<"req-", NumAtom(k)>>, reqFacets[k])]

\* The applicability and requirements of the IDSSpecification parsed from a
\* specification element with the two given blocks, or the error parseFacets
\* throws on the applicability block or, after it, on the requirements block.
parseSpecification(specEl) ==
    LET applicability == parseFacets(specEl.applicability)
        reqFacets == parseFacets(specEl.requirements)
    IN IF applicability.threw THEN applicability
       ELSE IF reqFacets.threw THEN reqFacets
       ELSE Returned([applicability |-> applicability.value,
                      requirements |-> facetsToRequirements(reqFacets.value)])

\* Most children drawn for a block.
MaxChildren == 2

ElementNames ==
    {"entity", "property", "attribute", "classification", "material", "partOf",
     "Entity", "description", "constructor", "__proto__"}

ChildElements ==
    {Element(n, None) : n \in ElementNames}
    \cup {Element("property", Some(<<"0">>)), Element("material", Some(<<"x">>))}

Blocks == UNION {[1..k -> ChildElements] : k \in 0..MaxChildren}

ParseInit ==
    /\ pIn \in [applicability : Blocks, requirements : Blocks]
    /\ pOut = None

\* The specification element is parsed: pOut holds what was returned or
\* thrown.
ParseApply ==
    /\ pOut = None
    /\ pOut' = Some(parseSpecification(pIn))
    /\ UNCHANGED pIn
    /\ UNCHANGED parseOthers


\* ========================================================== CSV report

\* The atoms of text that hold a comma, and those that hold a semicolon.
CommaAtoms == {",", ", "}
SemicolonAtoms == {";", " ; "}

\* escapeCSV: a value holding a comma, a double quote or a line feed is put
\* between double quotes, its own double quotes doubled.
DoubleQuotes(val) ==
    LET RECURSIVE go(_)
        go(s) == IF s = <<>> THEN <<>>
                 ELSE (IF Head(s) = "\"" THEN <<"\"", "\"">> ELSE <<Head(s)>>)
                      \o go(Tail(s))
    IN go(val)
escapeCSV(val) ==
    IF \E i \in 1..Len(val) : val[i] \in CommaAtoms \cup {"\"", "\n"}
    THEN <<"\"">> \o DoubleQuotes(val) \o <<"\"">>
    ELSE val

\* results.reduce((s, r) => s + r[field], 0)
RECURSIVE reduceSum(_, _)
reduceSum(rs, field) ==
    IF rs = <<>> THEN 0 ELSE rs[1][field] + reduceSum(Tail(rs), field)

passRate(totalPassed, totalChecked) ==
    IF totalChecked > 0 THEN MathRoundPercent(totalPassed, totalChecked) ELSE 0

Sep == <<";">>

\* The header row of the detail table.
HeaderRow ==
    Join([i \in 1..6 |->
            escapeCSV(<<<<"Specification">>, <<"Entite IFC">>, <<"Objet ID">>,
                        <<"Objet Nom">>, <<"Statut">>, <<"Message">>>>[i])],
         Sep)

\* The row of a result without details, and the row of one detail.
naRow(result) ==
    LET fields == <<result.specificationName, result.ifcEntity, <<>>, <<>>,
                    <<"N/A">>,
                    <<"Aucun objet trouve pour cette specification">>>>
    IN Join([i \in 1..6 |-> escapeCSV(fields[i])], Sep)
detailRow(result, detail) ==
    LET fields == <<result.specificationName, result.ifcEntity,
                    detail.objectId, detail.objectName,
                    IF detail.status = "pass" THEN <<"Conforme">>
                    ELSE <<"Non conforme">>,
                    detail.message>>
    IN Join([i \in 1..6 |-> escapeCSV(fields[i])], Sep)

\* The rows pushed by the loop over the results.
RECURSIVE detailRows(_)
detailRows(rs) ==
    IF rs = <<>> THEN <<>>
    ELSE (IF Len(rs[1].details) = 0 THEN <<naRow(rs[1])>>
          ELSE [k \in 1..Len(rs[1].details) |->
                    detailRow(rs[1], rs[1].details[k])])
         \o detailRows(Tail(rs))

\* exportValidationCSV up to the join: the lines of the file, in order. today
\* is new Date().toISOString().slice(0, 10).
exportValidationCSV(rs, idsFile, today) ==
    LET totalChecked == reduceSum(rs, "totalChecked")
        totalPassed == reduceSum(rs, "passed")
        totalFailed == reduceSum(rs, "failed")
    IN <<<<"Rapport de validation IDS">>,
         <<"Fichier IDS">> \o Sep \o escapeCSV(idsFile.name),
         <<"Version">> \o Sep \o escapeCSV(idsFile.version),
         <<"Auteur">> \o Sep \o escapeCSV(idsFile.author),
         <<"Date du fichier">> \o Sep \o escapeCSV(idsFile.date),
         <<"Date du rapport">> \o Sep \o today,
         <<>>,
         <<"Resume">>,
         <<"Total verifie">> \o Sep \o <<ToString(totalChecked)>>,
         <<"Conformes">> \o Sep \o <<ToString(totalPassed)>>,
         <<"Non conformes">> \o Sep \o <<ToString(totalFailed)>>,
         <<"Taux de conformite">> \o Sep
            \o <<ToString(passRate(totalPassed, totalChecked)), "%">>,
         <<>>,
         HeaderRow>>
       \o detailRows(rs)

\* -------------------------------------------------- results to export

\* The result of a specification that n objects were checked against, the
\* first p of them passing (what validateSpecification returns).
CsvResult(name, n, p) ==
    [specificationId |-> <<"spec-1">>, specificationName |-> name,
     ifcEntity |-> IfcWall, totalChecked |-> n, passed |-> p, failed |-> n - p,
     details |-> [i \in 1..n |->
        [objectId |-> <<"obj-", ToString(i)>>, objectName |-> <<"Mur ", ToString(i)>>,
         status |-> IF i <= p THEN "pass" ELSE "fail",
         message |-> IF i <= p THEN <<"OK">>
                     ELSE <<"Propriete manquante">>]]]

MaxResults == 3

\* What validateSpecification returns for the first specification of the
\* catalogue and three walls: one passing, one failing the property
\* requirement, one failing both requirements.
EngineResult ==
    validateSpecification(Specification(1), <<ObjWall1, ObjWall3, ObjWallBare>>)

SampleResults ==
    {CsvResult(<<"Murs">>, 0, 0), CsvResult(<<"Murs", ",", " dalles">>, 1, 1),
     CsvResult(<<"Dalles">>, 2, 1), CsvResult(<<"Poutres">>, 3, 0),
     CsvResult(<<"Portes">>, 40, 23), EngineResult}

ResultLists == UNION {[1..k -> SampleResults] : k \in 0..MaxResults}

CsvFile ==
    [name |-> <<"IDS 1">>, version |-> <<"1.0">>, author |-> <<"a@b.c">>,
     date |-> <<"2024-01-15">>]

CsvInit ==
    /\ xIn \in [results : ResultLists, idsFile : {CsvFile},
                today : {<<"2026-01-01">>}]
    /\ xOut = None

\* One call of exportValidationCSV.
CsvApply ==
    /\ xOut = None
    /\ xOut' = Some(exportValidationCSV(xIn.results, xIn.idsFile, xIn.today))
    /\ UNCHANGED xIn
    /\ UNCHANGED csvOthers

\* ================================================ full-model enumeration

\* const batchSize = 50
batchSize == 50

\* normalizeIfcClass over class names made of the atoms " ", "ifc", "IFC",
\* "wall", "WALL": trim, upper-case, then prefix 'IFC' when missing.
ClassUpper(s) ==
    [i \in 1..Len(s) |-> CASE s[i] = "ifc" -> "IFC" [] s[i] = "wall" -> "WALL"
                           [] OTHER -> s[i]]
normalizeIfcClass(raw) ==
    LET cls == ClassUpper(StrTrim(raw)) IN
    IF cls = <<>> THEN <<>>
    ELSE IF Head(cls) # "IFC" THEN <<"IFC">> \o cls
    ELSE cls

\* String(v) for the values met here.
StringOf(v) ==
    CASE v.t = "string" -> v.s
      [] v.t = "number" -> <<ToString(v.n)>>
      [] OTHER -> <<v.t>>

\* viewerPropsToIFCObject(obj, modelId) for objects without property sets
\* and without a product block: None stands for null.
viewerPropsToIFCObject(obj, modelId) ==
    IF ~Truthy(obj) THEN None
    ELSE LET rawClass == StringOf(Coalesce(Prop(obj, "class"),
                            Coalesce(Prop(obj, "type"),
                            Coalesce(Prop(obj, "ifcType"),
                            Coalesce(Prop(obj, "Type"), Str(<<>>))))))
             ifcClass == normalizeIfcClass(rawClass)
             rawName == StringOf(Coalesce(Prop(obj, "name"),
                            Coalesce(Prop(obj, "Name"), Str(<<>>))))
             idText == StringOf(Coalesce(Prop(obj, "id"),
                            Coalesce(Prop(obj, "runtimeId"), Str(<<>>))))
             idOnly == StringOf(Coalesce(Prop(obj, "id"), Str(<<>>)))
         IN IF ifcClass = <<>> \/ ifcClass = <<"IFC">> THEN None
            ELSE Some([IFCObject(modelId \o <<"-">> \o idText, ifcClass,
                                 [k \in (IF rawName # <<>> THEN {<<"Name">>} ELSE {})
                                    |-> rawName],
                                 [s \in {} |-> <<>>], <<>>, <<>>)
                       EXCEPT !.name = IF rawName # <<>> THEN rawName
                                       ELSE <<"Object ">> \o idOnly])

\* A slip: only the first entry of the array is converted.
convertFirstOnly(propsArray, modelId) ==
    IF propsArray = <<>> THEN <<>>
    ELSE viewerPropsToIFCObject(Head(propsArray), modelId)

\* The objects pushed for the array propsArray, in order.
RECURSIVE convertAll(_, _)
convertAll(propsArray, modelId) ==
    IF propsArray = <<>> THEN <<>>
    ELSE viewerPropsToIFCObject(Head(propsArray), modelId)
         \o convertAll(Tail(propsArray), modelId)

\* Array.isArray(rawArray) ? rawArray : [rawArray]
AsArray(rawArray) == IF IsArray(rawArray) THEN rawArray.items ELSE <<rawArray>>

\* allRuntimeIds.slice(i, i + batchSize), i counted from 0.
\* A slip: the slice one id longer than the step.
sliceOverlapping(ids, i) ==
    SubSeq(ids, i + 1, IF i + batchSize + 1 < Len(ids) THEN i + batchSize + 1 ELSE Len(ids))

slice(ids, i) ==
    SubSeq(ids, i + 1, IF i + batchSize < Len(ids) THEN i + batchSize ELSE Len(ids))

\* ------------------------------------------------------ host answers

MaxModels == 2

\* The models the host lists: none, or up to MaxModels in either order.
ModelName(k) == <<"m", ToString(k)>>
ModelLists ==
    {<<>>} \cup {[i \in 1..k |-> ModelName(i)] : k \in 1..MaxModels}
           \cup {[i \in 1..k |-> ModelName(k + 1 - i)] : k \in 1..MaxModels}

\* What getAllModelRuntimeIds returns for a model: no id, one id, one full
\* batch, one id more than a batch.
IdLists == {[k \in 1..n |-> k] : n \in {0, 1, batchSize, batchSize + 1}}

\* What getObjectProperties resolves with for a batch: an array with one
\* entry per id (every fourth id without a class, the next one null), or a
\* lone object instead of an array.
PropertyAnswers(batch) ==
    {Arr([k \in 1..Len(batch) |->
            CASE batch[k] % 4 = 0 -> Obj1("id", Num(batch[k]))
              [] batch[k] % 4 = 1 -> Null
              [] OTHER -> Obj2("id", Num(batch[k]), "class", Str(<<"ifc", "wall">>))]),
     Obj2("id", Num(batch[1]), "class", Str(<<" ", "wall">>))}

\* ------------------------------------------------------ one call

\* eApi: whether a host handle was passed.  ePc: "idle", the pending await
\* ("models", "timer", "models2", "ids", "props") or "done".  eModels: the
\* models listed.  eM: the number of the model of the loop.  eIds: its ids.
\* eI: the loop variable i.  eFlight: property fetches issued and not yet
\* settled.  eLog: the property fetches issued, with their outcome.
\* eObjects: allObjects.  eOut: the value the call resolved with.  eAsked:
\* the models getAllModelRuntimeIds was called for, with what it returned.
EnumInit ==
    /\ eApi \in BOOLEAN
    /\ ePc = "idle"
    /\ eModels = <<>> /\ eM = 0 /\ eIds = <<>> /\ eI = 0
    /\ eFlight = 0 /\ eLog = <<>> /\ eObjects = <<>> /\ eOut = None
    /\ eAsked = <<>>

MockObjects == <<ObjWall1, ObjWall3, ObjBeam1>>

Fetch(model, batch) ==
    [model |-> model, batch |-> batch, outcome |-> "pending", result |-> Undef]

\* The call returns value.
EnumReturns(value) ==
    /\ ePc' = "done"
    /\ eOut' = Some(value)

\* The loop over the models reaches model number m (or its end) with
\* allObjects = objects.
ModelLoop(models, m, objects) ==
    IF m > Len(models)
    THEN EnumReturns(objects) /\ eM' = m
    ELSE ePc' = "ids" /\ eM' = m /\ UNCHANGED eOut

\* The loop over the batches of the current model reaches i.
BatchLoop(i, objects, log) ==
    IF i < Len(eIds)
    THEN /\ ePc' = "props"
         /\ eI' = i
         /\ eFlight' = (IF ePc = "props" THEN eFlight - 1 ELSE eFlight) + 1
         /\ eLog' = Append(log, Fetch(eModels[eM], slice(eIds, i)))
         /\ UNCHANGED <<eM, eOut>>
    ELSE /\ eI' = i
         /\ eFlight' = IF ePc = "props" THEN eFlight - 1 ELSE eFlight
         /\ eLog' = log
         /\ ModelLoop(eModels, eM + 1, objects)

\* getAllIFCObjects(api) up to its first await.
EnumStart ==
    /\ ePc = "idle"
    /\ IF ~eApi THEN EnumReturns(MockObjects) ELSE ePc' = "models" /\ UNCHANGED eOut
    /\ UNCHANGED <<eApi, eModels, eM, eIds, eI, eFlight, eLog, eObjects, eAsked>>
    /\ UNCHANGED enumOthers

\* getLoadedModels returns models (the empty list when the host call
\* failed): the retry timer, the empty return, or the first model.
ModelsReturn(models) ==
    /\ ePc \in {"models", "models2"}
    /\ eModels' = models
    /\ IF Len(models) = 0
       THEN IF ePc = "models" THEN ePc' = "timer" /\ UNCHANGED <<eM, eOut>>
            ELSE EnumReturns(<<>>) /\ UNCHANGED eM
       ELSE ModelLoop(models, 1, eObjects)
    /\ UNCHANGED <<eApi, eIds, eI, eFlight, eLog, eObjects, eAsked>>
    /\ UNCHANGED enumOthers

\* The two seconds of the retry are over.
RetryTimer ==
    /\ ePc = "timer"
    /\ ePc' = "models2"
    /\ UNCHANGED <<eApi, eModels, eM, eIds, eI, eFlight, eLog, eObjects, eOut,
                   eAsked>>
    /\ UNCHANGED enumOthers

\* getAllModelRuntimeIds returns ids for the current model: the model is
\* skipped when there is none, its first batch is fetched otherwise.
IdsReturn(ids) ==
    /\ ePc = "ids"
    /\ eIds' = ids
    /\ eAsked' = Append(eAsked, [model |-> eModels[eM], ids |-> ids])
    /\ IF Len(ids) = 0
       THEN /\ ModelLoop(eModels, eM + 1, eObjects)
            /\ UNCHANGED <<eI, eFlight, eLog>>
       ELSE /\ ePc' = "props"
            /\ eI' = 0
            /\ eFlight' = eFlight + 1
            /\ eLog' = Append(eLog, Fetch(eModels[eM], slice(ids, 0)))
            /\ UNCHANGED <<eM, eOut>>
    /\ UNCHANGED <<eApi, eModels, eObjects>>
    /\ UNCHANGED enumOthers

Settled(outcome, result) ==
    [eLog EXCEPT ![Len(eLog)].outcome = outcome, ![Len(eLog)].result = result]

\* The pending getObjectProperties resolves with rawArray.
PropsResolve(rawArray) ==
    /\ ePc = "props"
    /\ LET objects == eObjects \o convertAll(AsArray(rawArray), eModels[eM]) IN
        /\ eObjects' = objects
        /\ BatchLoop(eI + batchSize, objects, Settled("resolved", rawArray))
    /\ UNCHANGED <<eApi, eModels, eIds, eAsked>>
    /\ UNCHANGED enumOthers

\* The pending getObjectProperties rejects: logged, the loop goes on.
PropsReject ==
    /\ ePc = "props"
    /\ eObjects' = eObjects
    /\ BatchLoop(eI + batchSize, eObjects, Settled("rejected", Undef))
    /\ UNCHANGED <<eApi, eModels, eIds, eAsked>>
    /\ UNCHANGED enumOthers

\* The answers the host can give to the pending fetch.
PendingAnswers ==
    IF ePc = "props" THEN PropertyAnswers(eLog[Len(eLog)].batch) ELSE {}

EnumNext ==
    \/ EnumStart
    \/ \E models \in ModelLists : ModelsReturn(models)
    \/ RetryTimer
    \/ \E ids \in IdLists : IdsReturn(ids)
    \/ \E rawArray \in PendingAnswers : PropsResolve(rawArray)
    \/ PropsReject

\* ==================================================== technical sheet tab

\* A live selection: entries of a model id and runtime ids.
Sel(modelId, ids) == [modelId |-> modelId, objectRuntimeIds |-> ids]

\* The selections the context publishes while the tab is shown.
SheetSelections ==
    {<<>>, <<Sel("m1", <<>>)>>, <<Sel("m1", <<1, 2>>)>>, <<Sel("m1", <<3>>)>>,
     <<Sel("m1", <<4>>), Sel("m2", <<5>>)>>}

\* selection.reduce((s, sel) => s + sel.objectRuntimeIds.length, 0)
RECURSIVE selectionCount(_)
selectionCount(selection) ==
    IF selection = <<>> THEN 0
    ELSE Len(Head(selection).objectRuntimeIds) + selectionCount(Tail(selection))

\* What is displayed: nothing, the stand-in record, or a fetched object.
NoObject == [kind |-> "null", modelId |-> "", id |-> 0]
MockObjectData == [kind |-> "mock", modelId |-> "", id |-> 0]
ObjectData(modelId, id) == [kind |-> "object", modelId |-> modelId, id |-> id]

\* The objects the host has for a selection, in the order of the entries
\* and of their ids.
RECURSIVE SelectedObjects(_)
SelectedObjects(selection) ==
    IF selection = <<>> THEN <<>>
    ELSE LET sel == Head(selection) IN
         [k \in 1..Len(sel.objectRuntimeIds) |->
            ObjectData(sel.modelId, sel.objectRuntimeIds[k])]
         \o SelectedObjects(Tail(selection))

\* What getSelectedObjectProperties(api, selection) can resolve with: no
\* object without a handle (!api); with one, the objects of the selection,
\* or no object (the host call failed or gave nothing).  It never rejects.
FetchAnswers(api, selection) ==
    IF ~api THEN {<<>>} ELSE {<<>>, SelectedObjects(selection)}

MaxRuns == 3

\* sApi: whether the context holds a host handle.  sSel: the selection of
\* the context.  sMounted: whether the tab is shown.  sObject: objectData.
\* sLoading: loading.  sFetches: the getSelectedObjectProperties calls not
\* yet settled, each with the handle and the selection it was given and the
\* number of the effect run that started it.  sRuns: runs of the selection
\* effect.  sLatest is history: what the call started by the latest run
\* resolved with.
SheetInit ==
    /\ sApi \in BOOLEAN
    /\ sSel \in SheetSelections
    /\ sMounted = FALSE
    /\ sObject = NoObject
    /\ sLoading = FALSE
    /\ sFetches = <<>>
    /\ sRuns = 0
    /\ sLatest = None

\* The selection effect for the handle (api: whether there is one) and the
\* selection of the context.
selectionEffect(api, selection) ==
    /\ sRuns' = sRuns + 1
    /\ IF selectionCount(selection) = 0 /\ ~api
       THEN sObject' = MockObjectData /\ UNCHANGED <<sLoading, sFetches>>
       ELSE IF selectionCount(selection) = 0
       THEN sObject' = NoObject /\ UNCHANGED <<sLoading, sFetches>>
       ELSE /\ sLoading' = TRUE
            /\ sFetches' = Append(sFetches, [api |-> api, selection |-> selection,
                                             run |-> sRuns + 1])
            /\ UNCHANGED sObject
    /\ sLatest' = None

\* The tab is shown: the effect runs for the first time.
SheetMount ==
    /\ ~sMounted
    /\ sMounted' = TRUE
    /\ selectionEffect(sApi, sSel)
    /\ UNCHANGED <<sApi, sSel>>
    /\ UNCHANGED sheetOthers

\* The context publishes a selection, a new array whether or not it holds
\* what the one before held: the dependency changed, the effect runs again.
\* Without a handle the selection is the one of an event that arrived while
\* the hook was still connecting.
SheetSelectionChanged(selection) ==
    /\ sMounted
    /\ sRuns < MaxRuns
    /\ sSel' = selection
    /\ selectionEffect(sApi, selection)
    /\ UNCHANGED <<sApi, sMounted>>
    /\ UNCHANGED sheetOthers

\* The hook connects while the tab is shown: the context gets the host
\* handle together with the initial selection read from the host; the
\* dependency api changed, the effect runs again.
SheetApiChanged(initialSelection) ==
    /\ sMounted /\ ~sApi
    /\ sRuns < MaxRuns
    /\ sApi' = TRUE
    /\ sSel' = initialSelection
    /\ selectionEffect(TRUE, initialSelection)
    /\ UNCHANGED sMounted
    /\ UNCHANGED sheetOthers

\* The i-th pending call resolves with objs: the .then callback.
SheetFetchResolved(i, objs) ==
    /\ i \in 1..Len(sFetches)
    /\ objs \in FetchAnswers(sFetches[i].api, sFetches[i].selection)
    /\ sObject' = IF Len(objs) > 0 THEN objs[1] ELSE NoObject
    /\ sLoading' = FALSE
    /\ sFetches' = RemoveAt(sFetches, i)
    /\ sLatest' = IF sFetches[i].run = sRuns THEN Some(objs) ELSE sLatest
    /\ UNCHANGED <<sApi, sSel, sMounted, sRuns>>
    /\ UNCHANGED sheetOthers

SheetNext ==
    \/ SheetMount
    \/ \E selection \in SheetSelections : SheetSelectionChanged(selection)
    \/ \E initialSelection \in SheetSelections : SheetApiChanged(initialSelection)
    \/ \E i \in 1..MaxRuns, objs \in {<<>>} \cup {SelectedObjects(s) : s \in SheetSelections} :
            SheetFetchResolved(i, objs)

\* =================================================== statistics tab tiles

TileConfig(id, size) == [id |-> id, visible |-> TRUE, size |-> size]

defaultTiles ==
    <<TileConfig("sum-elements", "third"), TileConfig("sum-levels", "third"),
      TileConfig("sum-types", "third"), TileConfig("prop-surface", "half"),
      TileConfig("prop-volume", "half"), TileConfig("prop-hauteur", "half"),
      TileConfig("prop-murs", "half"), TileConfig("prop-vitree", "half"),
      TileConfig("prop-ratio", "half"), TileConfig("ifc-pie", "full"),
      TileConfig("level-bar", "full"), TileConfig("material-bars", "full")>>

\* The tiles the user acts on: the first, the fourth and the last.
ActedTiles == {"sum-elements", "prop-surface", "material-bars"}

\* arr.findIndex(t => t.id === id): 0 stands for -1.
findIndex(arr, id) ==
    IF \E i \in 1..Len(arr) : arr[i].id = id
    THEN CHOOSE i \in 1..Len(arr) :
            arr[i].id = id /\ \A j \in 1..(i - 1) : arr[j].id # id
    ELSE 0

\* A slip: the dragged tile copied over the target, the target lost.
swapOverwriting(arr, fi, ti) == [arr EXCEPT ![ti] = arr[fi]]

\* [arr[fi], arr[ti]] = [arr[ti], arr[fi]]
swap(arr, fi, ti) == [arr EXCEPT ![fi] = arr[ti], ![ti] = arr[fi]]

\* The updater of onDrop.
dropUpdate(prev, dragged, targetId) ==
    LET fi == findIndex(prev, dragged)
        ti == findIndex(prev, targetId)
    IN IF fi = 0 \/ ti = 0 THEN prev ELSE swap(prev, fi, ti)

\* tiles, draggedId, dragOverId: the tab's state.  lastDrop is history: the
\* dragged id and the target of the onDrop call just made, None after any
\* other step.
StatsInit ==
    /\ tiles = defaultTiles
    /\ draggedId = None
    /\ dragOverId = None
    /\ lastDrop = None

\* Only visible tiles are rendered, so only they receive drag events.
Rendered(id) == \E i \in 1..Len(tiles) : tiles[i].id = id /\ tiles[i].visible

\* toggleVisibility(id), from the settings panel.
StatsToggleVisibility(id) ==
    /\ tiles' = [i \in 1..Len(tiles) |->
                    IF tiles[i].id = id
                    THEN [tiles[i] EXCEPT !.visible = ~tiles[i].visible]
                    ELSE tiles[i]]
    /\ lastDrop' = None
    /\ UNCHANGED <<draggedId, dragOverId>>
    /\ UNCHANGED statsOthers

resetTiles ==
    /\ tiles' = defaultTiles
    /\ lastDrop' = None
    /\ UNCHANGED <<draggedId, dragOverId>>
    /\ UNCHANGED statsOthers

onDragStart(id) ==
    /\ Rendered(id)
    /\ draggedId' = Some(id)
    /\ lastDrop' = None
    /\ UNCHANGED <<tiles, dragOverId>>
    /\ UNCHANGED statsOthers

onDragOver(id) ==
    /\ Rendered(id)
    /\ dragOverId' = IF IsSome(draggedId) /\ draggedId # Some(id) THEN Some(id)
                     ELSE dragOverId
    /\ lastDrop' = None
    /\ UNCHANGED <<tiles, draggedId>>
    /\ UNCHANGED statsOthers

onDrop(targetId) ==
    /\ Rendered(targetId)
    /\ lastDrop' = Some([dragged |-> draggedId, target |-> targetId])
    /\ IF draggedId = None \/ draggedId = Some(targetId)
       THEN UNCHANGED <<tiles, draggedId, dragOverId>>
       ELSE /\ tiles' = dropUpdate(tiles, Get(draggedId), targetId)
            /\ draggedId' = None
            /\ dragOverId' = None
    /\ UNCHANGED statsOthers

onDragEnd ==
    /\ draggedId' = None
    /\ dragOverId' = None
    /\ lastDrop' = None
    /\ UNCHANGED tiles
    /\ UNCHANGED statsOthers

\* onDragLeave of a tile: if (dragOverId === tile.id) setDragOverId(null)
onDragLeave(id) ==
    /\ Rendered(id)
    /\ dragOverId' = IF dragOverId = Some(id) THEN None ELSE dragOverId
    /\ lastDrop' = None
    /\ UNCHANGED <<tiles, draggedId>>
    /\ UNCHANGED statsOthers

StatsNext ==
    \/ \E id \in ActedTiles : StatsToggleVisibility(id)
    \/ resetTiles
    \/ \E id \in ActedTiles : onDragStart(id)
    \/ \E id \in ActedTiles : onDragOver(id)
    \/ \E id \in ActedTiles : onDragLeave(id)
    \/ \E id \in ActedTiles : onDrop(id)
    \/ onDragEnd

\* ============================================== value matching (pure)

\* One application of matchesConstraint: the constraint and the actual value
\* are the inputs, mOut is undefined until the function has returned.

\* The patterns of a restriction: none, the empty text, a literal, and a
\* text that is not a regular expression.
MatchPatterns == {None, Some(<<>>), Some(<<"a">>), Some(<<"(">>)}

MatchEnumerations == {None, Some(<<<<"a">>, <<"1">>>>)}

\* Length facets: none, one character, the longest value.
MatchLengths == {None, Some(1), Some(MaxValLen)}

\* Numeric facets: none, 1 and 11 (the numbers the values can spell).
MatchNumbers == {None, Some(1), Some(11)}

MatchRestrictions ==
    [pattern : MatchPatterns, enumeration : MatchEnumerations,
     minLength : MatchLengths, maxLength : MatchLengths, length : MatchLengths,
     minInclusive : MatchNumbers, maxInclusive : MatchNumbers]

MatchConstraints ==
    {NoConstraint} \cup {SimpleValue(v) : v \in {<<>>, <<"a">>}}
    \cup {Restriction(r) : r \in MatchRestrictions}

MatchInit ==
    /\ mConstraint \in MatchConstraints
    /\ mActual \in {None} \cup {Some(v) : v \in Vals}
    /\ mOut = None

\* matchesConstraint(constraint, actual) returns.
MatchApply ==
    /\ mOut = None
    /\ mOut' = Some(matchesConstraint(mConstraint, mActual))
    /\ UNCHANGED <<mConstraint, mActual>>
    /\ UNCHANGED matchOthers

\* ================================= one facet, as filter and as requirement

\* A classification facet applied to one object both ways: fMatch is what
\* objectMatchesFacet returns, fCheck what checkRequirement returns, each
\* undefined until its function has returned.
MaxClassifications == 2

\* The classification entries an object can carry: the system under two
\* spellings, or another system, with one of two values.
ClassificationEntries ==
    [system : {<<"Uniclass">>, <<"uniclass">>, <<"Omni">>},
     value : {<<"a">>, <<"1">>}]

FacetObjects ==
    {IFCObject(<<"obj-1">>, <<"IFCWALL">>, EmptyMap, EmptyMap, <<>>, cs) :
        cs \in UNION {[1..k -> ClassificationEntries] : k \in 0..MaxClassifications}}

\* Classification facets that name the system, with and without a value.
ClassificationFacets ==
    {[Facet("classification") EXCEPT !.system = SimpleValue(SystemName),
                                     !.value = v, !.minOccurs = o] :
        v \in {NoConstraint, SimpleValue(<<>>), SimpleValue(<<"a">>),
               Restriction([NoRestriction EXCEPT
                               !.enumeration = Some(<<<<"1">>>>)])},
        o \in Occurs}

FacetInit ==
    /\ fObj \in FacetObjects
    /\ fFacet \in ClassificationFacets
    /\ fMatch = None
    /\ fCheck = None

\* objectMatchesFacet(obj, facet) returns.
FacetMatches ==
    /\ fMatch = None
    /\ fMatch' = Some(objectMatchesFacet(fObj, fFacet))
    /\ UNCHANGED <<fObj, fFacet, fCheck>>
    /\ UNCHANGED facetOthers

\* checkRequirement(obj, { facet }) returns.
FacetChecked ==
    /\ fCheck = None
    /\ fCheck' = Some(checkRequirement(fObj, Requirement(<<"req-1">>, fFacet)))
    /\ UNCHANGED <<fObj, fFacet, fMatch>>
    /\ UNCHANGED facetOthers

FacetNext == FacetMatches \/ FacetChecked

\* ============================== filters and statistics from the model

\* detectModelFilters and computeModelStatistics, each called once with the
\* same capability handle (gApi: present or null) and from the point where
\* getAllIFCObjects has resolved with gObjects.  gFilters and gStats are
\* undefined until the function has returned.  A count table is the list of
\* its { name, count } entries in insertion order (Object.entries).
MaxObjects == 3

\* formatIfcClass for the classes met here.
formatIfcClass(upper) ==
    CASE upper = <<"IFCWALL">> -> <<"IfcWall">>
      [] upper = <<"IFCBUILDINGSTOREY">> -> <<"IfcBuildingstorey">>
      [] upper = <<"IFCBEAM">> -> <<"IfcBeam">>
      [] OTHER -> upper

\* String.prototype.toLowerCase over the atoms of property keys.
KeyToLowerCase(k) ==
    [i \in 1..Len(k) |->
        CASE k[i] = "Level" -> "level" [] k[i] = "Storey" -> "storey"
          [] k[i] = "Etage" -> "etage" [] k[i] = "Area" -> "area"
          [] k[i] = "Volume" -> "volume" [] k[i] = "Surface" -> "surface"
          [] k[i] = "Reference" -> "reference" [] k[i] = "Building" -> "building"
          [] OTHER -> k[i]]

\* obj.ifcClass.toUpperCase().includes('STOREY')
ClassIncludesStorey(ifcClass) == ifcClass = <<"IFCBUILDINGSTOREY">>

\* rec[name] = (rec[name] || 0) + n
RECURSIVE Bump(_, _, _)
Bump(table, name, n) ==
    IF table = <<>> THEN <<[name |-> name, count |-> n]>>
    ELSE IF table[1].name = name
         THEN <<[table[1] EXCEPT !.count = @ + n]>> \o Tail(table)
         ELSE <<table[1]>> \o Bump(Tail(table), name, n)

\* rec[name] = 0
RECURSIVE seed(_, _)
seed(table, name) ==
    IF table = <<>> THEN <<[name |-> name, count |-> 0]>>
    ELSE IF table[1].name = name
         THEN <<[table[1] EXCEPT !.count = 0]>> \o Tail(table)
         ELSE <<table[1]>> \o seed(Tail(table), name)

\* rec[name] ?? 0
CountOf(table, name) ==
    IF \E i \in 1..Len(table) : table[i].name = name
    THEN table[CHOOSE i \in 1..Len(table) : table[i].name = name].count
    ELSE 0

RECURSIVE BumpEach(_, _)
BumpEach(table, names) ==
    IF names = <<>> THEN table
    ELSE BumpEach(Bump(table, names[1], 1), Tail(names))

\* The entries of a set, one after the other.
RECURSIVE SeqOfSet(_)
SeqOfSet(S) ==
    IF S = {} THEN <<>>
    ELSE LET x == CHOOSE y \in S : TRUE IN <<x>> \o SeqOfSet(S \ {x})

\* The [key, value] entries of every property set of obj.  The objects used
\* here never hold two entries whose order could be told apart.
PropertyEntries(obj) ==
    SeqOfSet(UNION {{<<ps, k>> : k \in DOMAIN obj.properties[ps]} :
                        ps \in DOMAIN obj.properties})

IsLevelKey(k) ==
    LET kl == KeyToLowerCase(k) IN
    Includes(kl, <<"storey">>) \/ Includes(kl, <<"level">>) \/ Includes(kl, <<"etage">>)

\* The values of the level entries of obj, one per entry.
RECURSIVE LevelValues(_, _)
LevelValues(obj, entries) ==
    IF entries = <<>> THEN <<>>
    ELSE LET v == obj.properties[entries[1][1]][entries[1][2]] IN
         (IF IsLevelKey(entries[1][2]) /\ v # <<>> THEN <<v>> ELSE <<>>)
         \o LevelValues(obj, Tail(entries))

\* Object.entries(rec).sort((a, b) => b[1] - a[1]): a stable sort by
\* descending count.
RECURSIVE toSorted(_)
toSorted(table) ==
    IF table = <<>> THEN <<>>
    ELSE LET rest == toSorted(Tail(table))
             before == Cardinality({i \in 1..Len(rest) : rest[i].count > table[1].count})
         IN SubSeq(rest, 1, before) \o <<table[1]>>
            \o SubSeq(rest, before + 1, Len(rest))

\* The four count tables after the loop of detectModelFilters over objects.
RECURSIVE filterCounts(_, _)
filterCounts(objects, acc) ==
    IF objects = <<>> THEN acc
    ELSE LET obj == objects[1]
             seeded == IF ClassIncludesStorey(obj.ifcClass)
                       THEN seed(acc.levelCount, obj.name)
                       ELSE acc.levelCount
         IN filterCounts(Tail(objects),
              [classCount |-> Bump(acc.classCount, formatIfcClass(obj.ifcClass), 1),
               matCount |-> BumpEach(acc.matCount, obj.materials),
               levelCount |-> BumpEach(seeded, LevelValues(obj, PropertyEntries(obj))),
               psetCount |-> BumpEach(acc.psetCount, SeqOfSet(DOMAIN obj.properties))])

NoFilters == [ifcClasses |-> <<>>, materials |-> <<>>, levels |-> <<>>,
              propertySets |-> <<>>]

Entry(name, count) == [name |-> <<name>>, count |-> count]

MOCK_FILTERS ==
    [ifcClasses |-> <<Entry("IfcWall", 42), Entry("IfcWallStandardCase", 38),
                      Entry("IfcDoor", 28), Entry("IfcWindow", 35),
                      Entry("IfcSlab", 12), Entry("IfcBeam", 18),
                      Entry("IfcColumn", 15), Entry("IfcFlowTerminal", 8),
                      Entry("IfcFurnishingElement", 7), Entry("IfcCovering", 22),
                      Entry("IfcRailing", 6), Entry("IfcStairFlight", 4)>>,
     materials |-> <<Entry("Beton arme C30/37", 54), Entry("Acier S355", 33),
                     Entry("Bois lamelle GL24h", 12), Entry("Verre trempe 8mm", 35),
                     Entry("Platre BA13", 22), Entry("Isolation laine roche", 18),
                     Entry("Carrelage gres cerame", 9)>>,
     levels |-> <<Entry("Niveau 0 (RDC)", 45), Entry("Niveau 1", 62),
                  Entry("Niveau 2", 58)>>,
     propertySets |-> <<Entry("Pset_WallCommon", 42), Entry("Pset_DoorCommon", 28),
                        Entry("Pset_WindowCommon", 35), Entry("Pset_SlabCommon", 12),
                        Entry("Pset_BeamCommon", 18),
                        Entry("Pset_ManufacturerTypeInformation", 8),
                        Entry("Pset_SpaceCommon", 14)>>]

detectModelFilters(api, objects) ==
    IF ~api THEN MOCK_FILTERS
    ELSE IF Len(objects) = 0 THEN NoFilters
    ELSE LET c == filterCounts(objects,
                    [classCount |-> <<>>, matCount |-> <<>>, levelCount |-> <<>>,
                     psetCount |-> <<>>])
         IN [ifcClasses |-> toSorted(c.classCount), materials |-> toSorted(c.matCount),
             levels |-> toSorted(c.levelCount), propertySets |-> toSorted(c.psetCount)]

\* The sums of the numeric values of the entries whose key names an area or
\* a volume (parseFloat, NaN skipped).
RECURSIVE sumEntries(_, _, _)
sumEntries(obj, entries, words) ==
    IF entries = <<>> THEN 0
    ELSE LET kl == KeyToLowerCase(entries[1][2])
             num == ParseFloat(obj.properties[entries[1][1]][entries[1][2]])
         IN (IF IsSome(num) /\ \E w \in words : Includes(kl, <<w>>)
             THEN Get(num) ELSE 0)
            + sumEntries(obj, Tail(entries), words)

\* The locals of computeModelStatistics after its loop over objects.
RECURSIVE statsCounts(_, _)
statsCounts(objects, acc) ==
    IF objects = <<>> THEN acc
    ELSE LET obj == objects[1] IN
         statsCounts(Tail(objects),
            [classCount |-> Bump(acc.classCount, formatIfcClass(obj.ifcClass), 1),
             types |-> acc.types \cup {obj.ifcClass},
             materialCount |-> BumpEach(acc.materialCount, obj.materials),
             levelNames |-> IF obj.ifcClass = <<"IFCBUILDINGSTOREY">>
                            THEN Append(acc.levelNames, obj.name)
                            ELSE acc.levelNames,
             totalArea |-> acc.totalArea
                 + sumEntries(obj, PropertyEntries(obj), {"area", "surface"}),
             totalVolume |-> acc.totalVolume
                 + sumEntries(obj, PropertyEntries(obj), {"volume"})])

\* Math.ceil(a / b) for a > 0, b > 0.
MathCeilDiv(a, b) == (a + b - 1) \div b

perLevel(nonStoreyCount, levels) == MathCeilDiv(nonStoreyCount, levels)

\* levelObjectCount after the loop over levelNames.
RECURSIVE spread(_, _, _)
spread(table, names, n) ==
    IF names = <<>> THEN table
    ELSE spread(Bump(table, names[1], n), Tail(names), n)

COLORS == <<"#0063a3", "#10b981", "#f59e0b", "#8b5cf6", "#ef4444", "#06b6d4",
            "#f97316", "#ec4899">>
MAT_COLORS == <<"#6B7280", "#3B82F6", "#D97706", "#06B6D4", "#14B8A6", "#9CA3AF",
                "#EF4444", "#10B981">>

Coloured(table, colours) ==
    [i \in 1..Len(table) |->
        [name |-> table[i].name, count |-> table[i].count,
         color |-> colours[((i - 1) % Len(colours)) + 1]]]

EmptyStatistics ==
    [totalElements |-> 0, totalLevels |-> 0, totalTypes |-> 0,
     ifcClassDistribution |-> <<>>, levelDistribution |-> <<>>,
     materialDistribution |-> <<>>, propertyStats |-> <<>>]

ColourEntry(name, count, color) == [name |-> <<name>>, count |-> count, color |-> color]

mockStatistics ==
    [totalElements |-> 165, totalLevels |-> 3, totalTypes |-> 24,
     ifcClassDistribution |->
        <<ColourEntry("IfcWall", 42, "var(--chart-1)"),
          ColourEntry("IfcSlab", 12, "var(--chart-2)"),
          ColourEntry("IfcDoor", 28, "var(--chart-3)"),
          ColourEntry("IfcWindow", 35, "var(--chart-4)"),
          ColourEntry("IfcBeam", 18, "var(--chart-5)"),
          ColourEntry("IfcColumn", 15, "var(--success)"),
          ColourEntry("IfcFlowTerminal", 8, "var(--warning)"),
          ColourEntry("IfcFurnishingElement", 7, "var(--destructive)")>>,
     levelDistribution |-> <<Entry("Niveau 0", 45), Entry("Niveau 1", 62),
                             Entry("Niveau 2", 58)>>,
     materialDistribution |->
        <<ColourEntry("Beton arme", 54, "#6B7280"),
          ColourEntry("Acier S355", 33, "#3B82F6"),
          ColourEntry("Bois lamelle", 12, "#D97706"),
          ColourEntry("Verre", 35, "#06B6D4"),
          ColourEntry("Platre BA13", 22, "#F9FAFB"),
          ColourEntry("Autre", 9, "#9CA3AF")>>,
     propertyStats |->
        <<[name |-> "Surface totale", value |-> <<"2 450">>, unit |-> "m2"],
          [name |-> "Volume total", value |-> <<"8 575">>, unit |-> "m3"],
          [name |-> "Hauteur max", value |-> <<"12.6">>, unit |-> "m"],
          [name |-> "Longueur murs", value |-> <<"892">>, unit |-> "m"],
          [name |-> "Surface vitree", value |-> <<"380">>, unit |-> "m2"],
          [name |-> "Ratio vitrage", value |-> <<"15.5">>, unit |-> "%"]>>]

computeModelStatistics(api, objects) ==
    IF ~api THEN mockStatistics
    ELSE IF Len(objects) = 0 THEN EmptyStatistics
    ELSE LET c == statsCounts(objects,
                    [classCount |-> <<>>, types |-> {}, materialCount |-> <<>>,
                     levelNames |-> <<>>, totalArea |-> 0, totalVolume |-> 0])
             nonStoreyCount == Len(objects) - Len(c.levelNames)
             levelObjectCount ==
                IF Len(c.levelNames) > 0 /\ nonStoreyCount > 0
                THEN spread(<<>>, c.levelNames,
                            perLevel(nonStoreyCount, Len(c.levelNames)))
                ELSE <<>>
         IN [totalElements |-> Len(objects),
             totalLevels |-> Len(c.levelNames),
             totalTypes |-> Cardinality(c.types),
             ifcClassDistribution |-> Coloured(toSorted(c.classCount), COLORS),
             levelDistribution |->
                [i \in 1..Len(c.levelNames) |->
                    [name |-> c.levelNames[i],
                     count |-> CountOf(levelObjectCount, c.levelNames[i])]],
             materialDistribution |-> Coloured(toSorted(c.materialCount), MAT_COLORS),
             propertyStats |->
                <<[name |-> "Surface totale",
                   value |-> (IF c.totalArea > 0 THEN <<ToString(c.totalArea)>>
                              ELSE <<"--">>) \o <<" m2">>,
                   icon |-> "area"],
                  [name |-> "Volume total",
                   value |-> (IF c.totalVolume > 0 THEN <<ToString(c.totalVolume)>>
                              ELSE <<"--">>) \o <<" m3">>,
                   icon |-> "volume"]>>]

\* ------------------------------------------------ enumerated objects

Named(obj, name) == [obj EXCEPT !.name = name]

\* Two storeys of the same name (one per loaded model) and a third storey.
StoreyA1 ==
    Named(IFCObject(<<"m1-1">>, <<"IFCBUILDINGSTOREY">>, EmptyMap, EmptyMap, <<>>, <<>>),
          <<"Niveau 1">>)
StoreyB1 ==
    Named(IFCObject(<<"m2-1">>, <<"IFCBUILDINGSTOREY">>, EmptyMap, EmptyMap, <<>>, <<>>),
          <<"Niveau 1">>)
StoreyA2 ==
    Named(IFCObject(<<"m1-2">>, <<"IFCBUILDINGSTOREY">>, EmptyMap, EmptyMap, <<>>, <<>>),
          <<"Niveau 2">>)
\* A wall on level 1, a beam told to be on level 2 by two entries, a wall
\* whose level entry is empty.
WallOn1 ==
    IFCObject(<<"m1-3">>, <<"IFCWALL">>, EmptyMap,
              [s \in {PsetName} |->
                  [k \in {<<"Reference", " ", "Level">>} |-> <<"Niveau 1">>]],
              <<<<"Beton">>>>, <<>>)
BeamOn2 ==
    IFCObject(<<"m1-4">>, <<"IFCBEAM">>, EmptyMap,
              [s \in {<<"Pset_BeamCommon">>} |->
                  [k \in {<<"Etage">>, <<"Building", "Storey">>} |-> <<"Niveau 2">>]],
              <<<<"Acier">>>>, <<>>)
WallNowhere ==
    IFCObject(<<"m1-5">>, <<"IFCWALL">>, EmptyMap,
              [s \in {PsetName} |->
                  [k \in {<<"Level">>, <<"Area">>} |->
                      IF k = <<"Level">> THEN <<>> ELSE <<"1", "1">>]],
              <<>>, <<>>)

EnumeratedObjects == {StoreyA1, StoreyB1, StoreyA2, WallOn1, BeamOn2, WallNowhere}

DeriveInit ==
    /\ gApi \in BOOLEAN
    /\ gObjects \in UNION {[1..k -> EnumeratedObjects] : k \in 0..MaxObjects}
    /\ gApi = FALSE => gObjects = <<>>
    /\ gFilters = None
    /\ gStats = None

\* detectModelFilters(api) returns.
DetectFilters ==
    /\ gFilters = None
    /\ gFilters' = Some(detectModelFilters(gApi, gObjects))
    /\ UNCHANGED <<gApi, gObjects, gStats>>
    /\ UNCHANGED deriveOthers

\* computeModelStatistics(api) returns.
ComputeStatistics ==
    /\ gStats = None
    /\ gStats' = Some(computeModelStatistics(gApi, gObjects))
    /\ UNCHANGED <<gApi, gObjects, gFilters>>
    /\ UNCHANGED deriveOthers

DeriveNext == DetectFilters \/ ComputeStatistics

\* ============================================ selection synchronisation

\* The hook from the moment sdk.connect has resolved, with the host beside
\* it.  syHost: the selection the host holds.  syChanges: how often it has
\* changed.  syEvents: viewer.selectionChanged events on their way.  syPc:
\* where the connect continuation is.  syInit: its getSelection query.
\* syQueries: the getSelection queries of ticks not yet settled.  A query
\* holds the host's answer once the host has given it, and whether an
\* event has been published since it was issued.  syState: the published
\* isEmbedded and selection.  syPoll: whether the interval is scheduled.
\* syFromEvent and syReplacedBy are history: whether the published
\* selection is the one an event published, and which kind of query the
\* last step replaced such a selection with.

MaxChanges == 2
MaxInFlight == 2
MaxEvents == 1

\* The selections the host can hold, in the shapes it reports them; the
\* last one makes normalizeSelection throw.
HostSelections ==
    {Arr(<<>>), SelWrapper(<<Rec2>>), Arr(<<SelWrapper(<<Rec2, Null>>)>>),
     Arr(<<SelWrapper(<<Rec2>>), Num(5)>>), Arr(<<SelWrapper(<<Rec1>>), Null>>)}

Query(answer, old) == [answer |-> answer, old |-> old]

Aged(q) == [q EXCEPT !.old = TRUE]

SyncInit ==
    /\ syHost \in HostSelections
    /\ syChanges = 0
    /\ syEvents = <<>>
    /\ syPc = "permission"
    /\ syInit = Query(None, FALSE)
    /\ syQueries = <<>>
    /\ syState = [isEmbedded |-> FALSE, selection |-> <<>>]
    /\ syPoll = "off"
    /\ syFromEvent = FALSE
    /\ syReplacedBy = "none"

\* The user changes the selection in the host; the host may announce it.
HostChange(sel, announced) ==
    /\ syChanges < MaxChanges
    /\ sel # syHost
    /\ announced => Len(syEvents) < MaxEvents
    /\ syHost' = sel
    /\ syChanges' = syChanges + 1
    /\ syEvents' = IF announced THEN Append(syEvents, sel) ELSE syEvents
    /\ syReplacedBy' = "none"
    /\ UNCHANGED <<syPc, syInit, syQueries, syState, syPoll, syFromEvent>>
    /\ UNCHANGED syncOthers

\* handleEvent('viewer.selectionChanged', data): the selection is
\* published; when normalizeSelection throws, the handler ends before its
\* setState.
EventArrives(i) ==
    /\ i \in 1..Len(syEvents)
    /\ syEvents' = RemoveAt(syEvents, i)
    /\ LET n == normalizeSelection(syEvents[i]) IN
       IF n.throws
       THEN UNCHANGED <<syState, syFromEvent, syInit, syQueries>>
       ELSE /\ syState' = [syState EXCEPT !.selection = n.value]
            /\ syFromEvent' = TRUE
            /\ syInit' = IF syPc = "selection" THEN Aged(syInit) ELSE syInit
            /\ syQueries' = [k \in 1..Len(syQueries) |-> Aged(syQueries[k])]
    /\ syReplacedBy' = "none"
    /\ UNCHANGED <<syHost, syChanges, syPc, syPoll>>
    /\ UNCHANGED syncOthers

\* requestPermission has settled: api.viewer.getSelection() is called.
InitialRead ==
    /\ syPc = "permission"
    /\ syPc' = "selection"
    /\ syInit' = Query(None, FALSE)
    /\ syReplacedBy' = "none"
    /\ UNCHANGED <<syHost, syChanges, syEvents, syQueries, syState, syPoll,
                   syFromEvent>>
    /\ UNCHANGED syncOthers

\* The host answers the query of the connect continuation.
HostAnswersInitial ==
    /\ syPc = "selection"
    /\ syInit.answer = None
    /\ syInit' = [syInit EXCEPT !.answer = Some(syHost)]
    /\ syReplacedBy' = "none"
    /\ UNCHANGED <<syHost, syChanges, syEvents, syPc, syQueries, syState,
                   syPoll, syFromEvent>>
    /\ UNCHANGED syncOthers

\* Which kind of query replaced the selection an event had published.
ReplacedBy(q, selection) ==
    IF syFromEvent /\ selection # syState.selection
    THEN (IF q.old THEN "old" ELSE "fresh")
    ELSE "none"

\* setState({...}) at the end of the connect continuation, which ends
\* with it.
PublishSelection(initialSelection) ==
    /\ syState' = [isEmbedded |-> TRUE, selection |-> initialSelection]
    /\ syPc' = "connected"
    /\ syFromEvent' = (syFromEvent /\ initialSelection = syState.selection)
    /\ syReplacedBy' = ReplacedBy(syInit, initialSelection)
    /\ syInit' = Query(None, FALSE)
    /\ UNCHANGED <<syHost, syChanges, syEvents, syQueries, syPoll>>
    /\ UNCHANGED syncOthers

\* The initial getSelection resolves; a throw of normalizeSelection is
\* caught like a rejection.
InitialResolved ==
    /\ syPc = "selection"
    /\ syInit.answer # None
    /\ LET n == normalizeSelection(Get(syInit.answer)) IN
       PublishSelection(IF n.throws THEN <<>> ELSE n.value)

\* The initial getSelection rejects.
InitialRejected ==
    /\ syPc = "selection"
    /\ syInit.answer = None
    /\ PublishSelection(<<>>)

\* The polling effect after state.isEmbedded has changed; apiRef holds the
\* handle since sdk.connect resolved.
SyncPollingEffect ==
    /\ syPoll = "off"
    /\ syState.isEmbedded
    /\ syPoll' = "scheduled"
    /\ syReplacedBy' = "none"
    /\ UNCHANGED <<syHost, syChanges, syEvents, syPc, syInit, syQueries,
                   syState, syFromEvent>>
    /\ UNCHANGED syncOthers

\* The interval fires: getSelection is called.
SyncPollTick ==
    /\ syPoll = "scheduled"
    /\ Len(syQueries) < MaxInFlight
    /\ syQueries' = Append(syQueries, Query(None, FALSE))
    /\ syReplacedBy' = "none"
    /\ UNCHANGED <<syHost, syChanges, syEvents, syPc, syInit, syState, syPoll,
                   syFromEvent>>
    /\ UNCHANGED syncOthers

\* The host answers the query of a tick.
HostAnswersPoll(i) ==
    /\ i \in 1..Len(syQueries)
    /\ syQueries[i].answer = None
    /\ syQueries' = [syQueries EXCEPT ![i].answer = Some(syHost)]
    /\ syReplacedBy' = "none"
    /\ UNCHANGED <<syHost, syChanges, syEvents, syPc, syInit, syState, syPoll,
                   syFromEvent>>
    /\ UNCHANGED syncOthers

\* The getSelection of a tick resolves; a throw of normalizeSelection is
\* caught.
SyncPollResolved(i) ==
    /\ i \in 1..Len(syQueries)
    /\ syQueries[i].answer # None
    /\ syQueries' = RemoveAt(syQueries, i)
    /\ LET n == normalizeSelection(Get(syQueries[i].answer))
           s == IF n.throws THEN syState ELSE pollUpdate(syState, n.value)
       IN /\ syState' = s
          /\ syFromEvent' = (syFromEvent /\ s.selection = syState.selection)
          /\ syReplacedBy' = ReplacedBy(syQueries[i], s.selection)
    /\ UNCHANGED <<syHost, syChanges, syEvents, syPc, syInit, syPoll>>
    /\ UNCHANGED syncOthers

\* The getSelection of a tick rejects: caught, nothing else happens.
SyncPollRejected(i) ==
    /\ i \in 1..Len(syQueries)
    /\ syQueries[i].answer = None
    /\ syQueries' = RemoveAt(syQueries, i)
    /\ syReplacedBy' = "none"
    /\ UNCHANGED <<syHost, syChanges, syEvents, syPc, syInit, syState, syPoll,
                   syFromEvent>>
    /\ UNCHANGED syncOthers

SyncNext ==
    \/ \E sel \in HostSelections, announced \in BOOLEAN : HostChange(sel, announced)
    \/ \E i \in 1..Len(syEvents) : EventArrives(i)
    \/ InitialRead
    \/ HostAnswersInitial
    \/ InitialResolved
    \/ InitialRejected
    \/ SyncPollingEffect
    \/ SyncPollTick
    \/ \E i \in 1..Len(syQueries) : HostAnswersPoll(i)
    \/ \E i \in 1..Len(syQueries) : SyncPollResolved(i)
    \/ \E i \in 1..Len(syQueries) : SyncPollRejected(i)

\* ================================================== restriction parsing

\* The tags readInt is called with.
NumericTags == {"length", "minLength", "maxLength", "minInclusive", "maxInclusive"}

\* A child element as far as parseRestriction reads it: whether it is in
\* the XML Schema namespace, and its value attribute, None for
\* getAttribute('value') giving null.
XsChild(xs, value) == [xs |-> xs, value |-> value]

\* The value attributes a child comes with: none, '', 'x', '12', ' 1.5'.
ValueAttributes ==
    {None, Some(<<>>), Some(<<"x">>), Some(<<"1", "2">>),
     Some(<<" ", "1", ".", "5">>)}

\* What the two lookups of a tag give together: no element (None) or the
\* first element found.
FoundChildren == {None} \cup {Some(XsChild(TRUE, v)) : v \in ValueAttributes}

\* The enumeration children of the element, in document order.
EnumerationChildren ==
    {<<>>,
     <<XsChild(TRUE, Some(<<"a">>)), XsChild(TRUE, None)>>,
     <<XsChild(FALSE, Some(<<"b">>)), XsChild(TRUE, Some(<<>>))>>}

\* Number(e.getAttribute('value')): Number(null) is 0.
NumberOfAttribute(value) ==
    IF value = None THEN Some(0) ELSE NumberOf(Get(value))

\* readInt(tag) for the element found: undefined (None) without an element
\* or when Number gives NaN.
readInt(e) ==
    IF e = None THEN None ELSE NumberOfAttribute(Get(e).value)

\* The truthy value attributes of the children a lookup gives: those in
\* the XML Schema namespace (xs), or those with the plain tag name.
RECURSIVE pushValues(_, _)
pushValues(children, xs) ==
    IF Len(children) = 0 THEN <<>>
    ELSE LET c == Head(children)
             rest == pushValues(Tail(children), xs)
         IN IF c.xs = xs /\ c.value # None /\ Get(c.value) # <<>>
            THEN <<Get(c.value)>> \o rest ELSE rest

\* parseRestriction(el)
parseRestriction(el) ==
    LET nsEnums == pushValues(el.enumeration, TRUE)
        enums == IF Len(nsEnums) = 0
                 THEN pushValues(el.enumeration, FALSE)
                 ELSE nsEnums
    IN [base |-> el.base,
        enumeration |-> IF Len(enums) > 0 THEN Some(enums) ELSE None,
        pattern |-> IF el.pattern # None THEN Get(el.pattern).value ELSE None,
        length |-> readInt(el.length),
        minLength |-> readInt(el.minLength),
        maxLength |-> readInt(el.maxLength),
        minInclusive |-> readInt(el.minInclusive),
        maxInclusive |-> readInt(el.maxInclusive)]

\* The restriction elements parsed.
RestrictionElements ==
    [base : {None, Some(<<"xs:string">>)},
     enumeration : EnumerationChildren,
     pattern : {None, Some(XsChild(TRUE, None)), Some(XsChild(TRUE, Some(<<"a">>)))},
     length : FoundChildren, minLength : FoundChildren,
     maxLength : FoundChildren, minInclusive : FoundChildren,
     maxInclusive : FoundChildren]

RestrictInit ==
    /\ rEl \in RestrictionElements
    /\ rOut = None

\* parseRestriction(el) returns.
RestrictApply ==
    /\ rOut = None
    /\ rOut' = Some(parseRestriction(rEl))
    /\ UNCHANGED rEl
    /\ UNCHANGED restrictOthers

\* ====================================================== specifications

CheckIdle == cObj = IFCObject(<<>>, <<>>, EmptyMap, EmptyMap, <<>>, <<>>)
             /\ cReq = Requirement(<<>>, Facet("entity")) /\ cOut = None
NormalizeIdle == nIn = Undef /\ nOut = None
ValidateIdle == vRun = NoRun
ConnectIdle ==
    /\ tcEnv = [isInIframe |-> FALSE, sdk |-> FALSE]
    /\ tcPc = "unmounted"
    /\ tcState = InitialHookState
    /\ tcLocal = [project |-> None, accessToken |-> None]
    /\ tcPushed = None
    /\ tcApiRef = FALSE /\ tcConnects = 0
    /\ tcPoll = "off" /\ tcTicks = 0 /\ tcPending = 0 /\ tcLastPoll = None
BridgeIdle ==
    /\ bCall = BridgeCall("none", None, <<>>, TRUE)
    /\ bPc = "done" /\ bAttempt = 0 /\ bLog = <<>> /\ bOut = "pending"
    /\ bFound = None
ExplorerIdle == ExplorerInit
ParseIdle == pIn = [applicability |-> <<>>, requirements |-> <<>>] /\ pOut = None
CsvIdle ==
    xIn = [results |-> <<>>, idsFile |-> CsvFile, today |-> <<>>] /\ xOut = None
EnumIdle ==
    /\ eApi = FALSE /\ ePc = "done" /\ eModels = <<>> /\ eM = 0 /\ eIds = <<>>
    /\ eI = 0 /\ eFlight = 0 /\ eLog = <<>> /\ eObjects = <<>> /\ eOut = None
    /\ eAsked = <<>>
SheetIdle ==
    /\ sApi = FALSE /\ sSel = <<>> /\ sMounted = TRUE /\ sObject = NoObject
    /\ sLoading = FALSE /\ sFetches = <<>> /\ sRuns = MaxRuns /\ sLatest = None
StatsIdle == StatsInit
MatchIdle == mConstraint = NoConstraint /\ mActual = None /\ mOut = None
FacetIdle == fObj = IFCObject(<<>>, <<>>, EmptyMap, EmptyMap, <<>>, <<>>) /\ fFacet = Facet("entity") /\ fMatch = None /\ fCheck = None
DeriveIdle == gApi = FALSE /\ gObjects = <<>> /\ gFilters = None /\ gStats = None
SyncIdle ==
    /\ syHost = Arr(<<>>) /\ syChanges = 0 /\ syEvents = <<>>
    /\ syPc = "idle" /\ syInit = Query(None, FALSE) /\ syQueries = <<>>
    /\ syState = [isEmbedded |-> FALSE, selection |-> <<>>]
    /\ syPoll = "off" /\ syFromEvent = FALSE /\ syReplacedBy = "none"
RestrictIdle == rEl = [base |-> None] /\ rOut = None

InitCheck ==
    /\ CheckInit /\ NormalizeIdle /\ ValidateIdle /\ TabInit /\ ConnectIdle
    /\ BridgeIdle /\ ExplorerIdle /\ ParseIdle /\ CsvIdle /\ EnumIdle
    /\ SheetIdle /\ StatsIdle /\ MatchIdle /\ FacetIdle /\ DeriveIdle
    /\ SyncIdle /\ RestrictIdle
InitNormalize ==
    /\ CheckIdle /\ NormalizeInit /\ ValidateIdle /\ TabInit /\ ConnectIdle
    /\ BridgeIdle /\ ExplorerIdle /\ ParseIdle /\ CsvIdle /\ EnumIdle
    /\ SheetIdle /\ StatsIdle /\ MatchIdle /\ FacetIdle /\ DeriveIdle
    /\ SyncIdle /\ RestrictIdle
InitValidate ==
    /\ CheckIdle /\ NormalizeIdle /\ ValidateInit /\ TabInit /\ ConnectIdle
    /\ BridgeIdle /\ ExplorerIdle /\ ParseIdle /\ CsvIdle /\ EnumIdle
    /\ SheetIdle /\ StatsIdle /\ MatchIdle /\ FacetIdle /\ DeriveIdle
    /\ SyncIdle /\ RestrictIdle
InitTab ==
    /\ CheckIdle /\ NormalizeIdle /\ ValidateIdle /\ TabInit /\ ConnectIdle
    /\ BridgeIdle /\ ExplorerIdle /\ ParseIdle /\ CsvIdle /\ EnumIdle
    /\ SheetIdle /\ StatsIdle /\ MatchIdle /\ FacetIdle /\ DeriveIdle
    /\ SyncIdle /\ RestrictIdle
InitConnect ==
    /\ CheckIdle /\ NormalizeIdle /\ ValidateIdle /\ TabInit /\ ConnectInit
    /\ BridgeIdle /\ ExplorerIdle /\ ParseIdle /\ CsvIdle /\ EnumIdle
    /\ SheetIdle /\ StatsIdle /\ MatchIdle /\ FacetIdle /\ DeriveIdle
    /\ SyncIdle /\ RestrictIdle
InitBridge ==
    /\ CheckIdle /\ NormalizeIdle /\ ValidateIdle /\ TabInit /\ ConnectIdle
    /\ BridgeInit /\ ExplorerIdle /\ ParseIdle /\ CsvIdle /\ EnumIdle
    /\ SheetIdle /\ StatsIdle /\ MatchIdle /\ FacetIdle /\ DeriveIdle
    /\ SyncIdle /\ RestrictIdle
InitExplorer ==
    /\ CheckIdle /\ NormalizeIdle /\ ValidateIdle /\ TabInit /\ ConnectIdle
    /\ BridgeIdle /\ ExplorerInit /\ ParseIdle /\ CsvIdle /\ EnumIdle
    /\ SheetIdle /\ StatsIdle /\ MatchIdle /\ FacetIdle /\ DeriveIdle
    /\ SyncIdle /\ RestrictIdle
InitParse ==
    /\ CheckIdle /\ NormalizeIdle /\ ValidateIdle /\ TabInit /\ ConnectIdle
    /\ BridgeIdle /\ ExplorerIdle /\ ParseInit /\ CsvIdle /\ EnumIdle
    /\ SheetIdle /\ StatsIdle /\ MatchIdle /\ FacetIdle /\ DeriveIdle
    /\ SyncIdle /\ RestrictIdle
InitCsv ==
    /\ CheckIdle /\ NormalizeIdle /\ ValidateIdle /\ TabInit /\ ConnectIdle
    /\ BridgeIdle /\ ExplorerIdle /\ ParseIdle /\ CsvInit /\ EnumIdle
    /\ SheetIdle /\ StatsIdle /\ MatchIdle /\ FacetIdle /\ DeriveIdle
    /\ SyncIdle /\ RestrictIdle
InitEnum ==
    /\ CheckIdle /\ NormalizeIdle /\ ValidateIdle /\ TabInit /\ ConnectIdle
    /\ BridgeIdle /\ ExplorerIdle /\ ParseIdle /\ CsvIdle /\ EnumInit
    /\ SheetIdle /\ StatsIdle /\ MatchIdle /\ FacetIdle /\ DeriveIdle
    /\ SyncIdle /\ RestrictIdle
InitSheet ==
    /\ CheckIdle /\ NormalizeIdle /\ ValidateIdle /\ TabInit /\ ConnectIdle
    /\ BridgeIdle /\ ExplorerIdle /\ ParseIdle /\ CsvIdle /\ EnumIdle
    /\ SheetInit /\ StatsIdle /\ MatchIdle /\ FacetIdle /\ DeriveIdle
    /\ SyncIdle /\ RestrictIdle
InitStats ==
    /\ CheckIdle /\ NormalizeIdle /\ ValidateIdle /\ TabInit /\ ConnectIdle
    /\ BridgeIdle /\ ExplorerIdle /\ ParseIdle /\ CsvIdle /\ EnumIdle
    /\ SheetIdle /\ StatsInit /\ MatchIdle /\ FacetIdle /\ DeriveIdle
    /\ SyncIdle /\ RestrictIdle
InitMatch ==
    /\ CheckIdle /\ NormalizeIdle /\ ValidateIdle /\ TabInit /\ ConnectIdle
    /\ BridgeIdle /\ ExplorerIdle /\ ParseIdle /\ CsvIdle /\ EnumIdle
    /\ SheetIdle /\ StatsIdle /\ MatchInit /\ FacetIdle /\ DeriveIdle
    /\ SyncIdle /\ RestrictIdle
InitFacet ==
    /\ CheckIdle /\ NormalizeIdle /\ ValidateIdle /\ TabInit /\ ConnectIdle
    /\ BridgeIdle /\ ExplorerIdle /\ ParseIdle /\ CsvIdle /\ EnumIdle
    /\ SheetIdle /\ StatsIdle /\ MatchIdle /\ FacetInit /\ DeriveIdle
    /\ SyncIdle /\ RestrictIdle
InitDerive ==
    /\ CheckIdle /\ NormalizeIdle /\ ValidateIdle /\ TabInit /\ ConnectIdle
    /\ BridgeIdle /\ ExplorerIdle /\ ParseIdle /\ CsvIdle /\ EnumIdle
    /\ SheetIdle /\ StatsIdle /\ MatchIdle /\ FacetIdle /\ DeriveInit
    /\ SyncIdle /\ RestrictIdle
InitSync ==
    /\ CheckIdle /\ NormalizeIdle /\ ValidateIdle /\ TabInit /\ ConnectIdle
    /\ BridgeIdle /\ ExplorerIdle /\ ParseIdle /\ CsvIdle /\ EnumIdle
    /\ SheetIdle /\ StatsIdle /\ MatchIdle /\ FacetIdle /\ DeriveIdle
    /\ SyncInit /\ RestrictIdle
InitRestrict ==
    /\ CheckIdle /\ NormalizeIdle /\ ValidateIdle /\ TabInit /\ ConnectIdle
    /\ BridgeIdle /\ ExplorerIdle /\ ParseIdle /\ CsvIdle /\ EnumIdle
    /\ SheetIdle /\ StatsIdle /\ MatchIdle /\ FacetIdle /\ DeriveIdle
    /\ SyncIdle /\ RestrictInit

ValidateNext == ValidateCall \/ ValidateTimer

\* One requirement checked against one object.
SpecCheck == InitCheck /\ [][CheckApply]_vars
\* One value normalized as a selection.
SpecNormalize == InitNormalize /\ [][NormalizeApply]_vars
\* One run of the validation engine.
SpecValidate == InitValidate /\ [][ValidateNext]_vars
\* The IDS Validation tab under user actions and completions.
SpecTab == InitTab /\ [][TabNext]_vars
\* A step that leaves at most MaxConcurrent operations in flight.
Serial == Len(pending') <= MaxConcurrent
\* The tab used by at most MaxConcurrent operations at a time.
TabNextSerial ==
    \/ ToggleLibrary /\ Serial
    \/ DropZoneClick /\ Serial
    \/ \E f \in TabFiles : SelectFromLibrary(f) /\ Serial
    \/ \E f \in TabFiles, name \in FileNames : LoadFile(f, name) /\ Serial
    \/ \E name \in FileNames : LoadFileBadName(name) /\ Serial
    \/ \E i \in 1..Len(pending) : LoadResolved(i) /\ Serial
    \/ \E i \in 1..Len(pending), err \in LoadErrors : LoadRejected(i, err) /\ Serial
    \/ RunValidation /\ Serial
    \/ \E i \in 1..Len(pending), objects \in TabObjectLists : ObjectsResolved(i, objects) /\ Serial
    \/ \E i \in 1..Len(pending) : RunTimer(i) /\ Serial
    \/ \E i \in 1..Len(pending), err \in RunThrown : RunThrows(i, err) /\ Serial
    \/ ToggleExportMenu /\ Serial
    \/ ExportPDF /\ Serial
    \/ ExportCSV /\ Serial
    \/ BackToResults /\ Serial
    \/ DismissError /\ Serial
SpecTabSerial == InitTab /\ [][TabNextSerial]_vars
\* The tab with its colour button, used by at most MaxConcurrent operations
\* at a time.
TabColoursNext ==
    \/ TabNextSerial
    \/ ToggleColors /\ Serial
    \/ \E i \in 1..Len(pending) : ColourNoModel(i) /\ Serial
    \/ \E i \in 1..Len(pending) : ColourModels(i) /\ Serial
    \/ \E i \in 1..Len(pending), ok \in BOOLEAN : ColourReset(i, ok) /\ Serial
    \/ \E i \in 1..Len(pending), ok \in BOOLEAN : ColourPass(i, ok) /\ Serial
    \/ \E i \in 1..Len(pending), ok \in BOOLEAN : ColourFail(i, ok) /\ Serial
SpecTabColours == InitTab /\ [][TabColoursNext]_vars
\* The host-connection hook from mount on.
SpecConnect == InitConnect /\ [][ConnectNext]_vars
\* One call of a bridge helper against the host.
SpecBridge == InitBridge /\ [][BridgeNext]_vars
\* Visibility toggles in the explorer tab.
SpecExplorer == InitExplorer /\ [][ExplorerNext]_vars
\* One specification element parsed.
SpecParse == InitParse /\ [][ParseApply]_vars
\* exportValidationCSV applied once.
SpecCsv == InitCsv /\ [][CsvApply]_vars
\* One getAllIFCObjects call.
SpecEnum == InitEnum /\ [][EnumNext]_vars
\* The Technical Sheet tab.
SpecSheet == InitSheet /\ [][SheetNext]_vars
\* The tiles of the Statistics tab.
SpecStats == InitStats /\ [][StatsNext]_vars
\* matchesConstraint applied once.
SpecMatch == InitMatch /\ [][MatchApply]_vars
\* One classification facet applied both ways.
SpecFacet == InitFacet /\ [][FacetNext]_vars
\* Filters and statistics derived from one enumerated object list.
SpecDerive == InitDerive /\ [][DeriveNext]_vars
\* The hook beside the host whose selection it follows.
SpecSync == InitSync /\ [][SyncNext]_vars
\* The same with the scheduling the hook relies on: the effect runs after
\* the render that made the state embedded, the interval keeps firing, and
\* the host keeps answering the queries of ticks, which then resolve.
SpecSyncFair ==
    /\ InitSync /\ [][SyncNext]_vars
    /\ WF_vars(SyncPollingEffect)
    /\ WF_vars(SyncPollTick)
    /\ SF_vars(\E i \in 1..Len(syQueries) : HostAnswersPoll(i))
    /\ SF_vars(\E i \in 1..Len(syQueries) : SyncPollResolved(i))
\* parseRestriction applied to every restriction element.
SpecRestrict == InitRestrict /\ [][RestrictApply]_vars


\* ============================================================== claims

\* C1: a completed validateIDS run on a file of N specifications has called
\* the progress callback exactly N times, once after each specification in
\* file order, with non-decreasing percentages ending at 100, and returns
\* exactly N results, the i-th for the i-th specification of the file.
C1_ProgressAndResultsFollowFileOrder ==
    LET specs == vRun.idsFile.specifications
        N == Len(specs)
    IN /\ vRun.pc \in {"sleep", "done"} =>
            /\ Len(vRun.progress) = Len(vRun.results)
            /\ \A i \in 1..Len(vRun.results) :
                   vRun.results[i].specificationId = specs[i].id
            /\ vRun.pc = "sleep" => Len(vRun.results) = vRun.si + 1
       /\ vRun.pc = "done" =>
            /\ Len(vRun.progress) = N
            /\ Len(vRun.results) = N
            /\ \A i \in 1..N : \A j \in i..N : vRun.progress[i] <= vRun.progress[j]
            /\ N > 0 => vRun.progress[N] = 100

\* A run over two specifications or more and a non-empty object set has
\* returned.
C1_Witness ==
    /\ vRun.pc = "done"
    /\ Len(vRun.idsFile.specifications) >= 2
    /\ Len(vRun.objects) > 0
    /\ Len(vRun.progress) >= 2
    /\ vRun.progress[1] < 100

\* C9 (amended): for a property requirement naming set S and key K with a
\* non-empty literal expected value V and occurrence unspecified or > 0, an
\* object lacking S or K fails with "Propriete 'S.K' manquante", an object
\* whose value for S.K equals V ignoring letter case passes, and an object
\* with any other value fails with a message quoting the actual value and V.
C9_Case(nonEmptyOnly) ==
    LET facet == cReq.facet
        S == facet.propertySet.value
        K == facet.baseName.value
        V == facet.value.value
        has == S \in DOMAIN cObj.properties /\ K \in DOMAIN cObj.properties[S]
        actual == cObj.properties[S][K]
        sameLetter(a, b) == a = b \/ {a, b} = {"a", "A"}
        sameIgnoringCase(a, b) ==
            Len(a) = Len(b) /\ \A i \in 1..Len(a) : sameLetter(a[i], b[i])
        out == Get(cOut)
    IN (/\ IsSome(cOut)
        /\ facet.type = "property"
        /\ facet.propertySet.type = "simpleValue" /\ S # <<>>
        /\ facet.baseName.type = "simpleValue" /\ K # <<>>
        /\ facet.value.type = "simpleValue"
        /\ nonEmptyOnly => V # <<>>
        /\ facet.minOccurs = None \/ Get(facet.minOccurs) > 0)
       => IF ~has
          THEN out = Fail(<<"Propriete '">> \o S \o <<".">> \o K \o <<"' manquante">>)
          ELSE IF sameIgnoringCase(actual, V) THEN out.pass
          ELSE /\ ~out.pass
               /\ Includes(out.message, actual)
               /\ Includes(out.message, V)
               /\ Includes(out.message,
                           <<"' = '">> \o actual \o <<"' -- attendu : ">> \o V)

C9_LiteralPropertyRequirement == C9_Case(TRUE)

\* C9 as stated, for every literal V, the empty one included.
C9_AsStated == C9_Case(FALSE)

\* A value differing from a non-empty V only by letter case has passed.
C9_Witness ==
    /\ IsSome(cOut)
    /\ cReq.facet.type = "property"
    /\ cReq.facet.propertySet = SimpleValue(PsetName)
    /\ cReq.facet.baseName = SimpleValue(PropName)
    /\ cReq.facet.value = SimpleValue(<<"a", "1">>)
    /\ cReq.facet.minOccurs = None
    /\ PropertyOf(cObj, PsetName, PropName) = Some(<<"A", "1">>)
    /\ Get(cOut).pass

\* The cases of C10 on the outcome of a check.  relaxed says when the
\* occurrence bound of a property or material facet makes a missing item
\* optional: when it is 0 (exactlyZero), or when it is given and not above 0.
C10_Case(exactlyZero) ==
    LET facet == cReq.facet
        out == Get(cOut)
        named(c) == c.type = "simpleValue" /\ c.value # <<>>
        missingProperty ==
            /\ facet.type = "property"
            /\ named(facet.propertySet) /\ named(facet.baseName)
            /\ ~(/\ facet.propertySet.value \in DOMAIN cObj.properties
                 /\ facet.baseName.value
                        \in DOMAIN cObj.properties[facet.propertySet.value])
        missingMaterial == facet.type = "material" /\ Len(cObj.materials) = 0
        missingAttribute ==
            /\ facet.type = "attribute"
            /\ named(facet.attributeName)
            /\ facet.attributeName.value \notin DOMAIN cObj.attributes
        missingClassification ==
            /\ facet.type = "classification"
            /\ named(facet.system)
            /\ Len(cObj.classifications) = 0
        relaxed ==
            IF exactlyZero THEN facet.minOccurs = Some(0)
            ELSE IsSome(facet.minOccurs) /\ Get(facet.minOccurs) <= 0
    IN IsSome(cOut) =>
        /\ (missingProperty \/ missingMaterial \/ missingAttribute
              \/ missingClassification)
            => /\ out = Pass(<<"OK (optionnel)">>)
                    <=> (missingProperty \/ missingMaterial) /\ relaxed
               /\ out.pass <=> (missingProperty \/ missingMaterial) /\ relaxed
        /\ missingMaterial /\ ~relaxed => out = Fail(<<"Aucun materiau assigne">>)
        /\ missingProperty /\ ~relaxed => ~out.pass
        /\ missingAttribute => ~out.pass

\* C10: a requirement on a missing item passes as optional exactly when the
\* facet is a property or material facet whose occurrence lower bound is
\* given and not greater than 0 (0, or a negative number); with the bound
\* absent or greater than 0 a missing property fails and an object without
\* materials fails with "Aucun materiau assigne"; a missing attribute fails
\* whatever the bound.
C10_OptionalWhenBoundNotPositive == C10_Case(FALSE)

\* C10 as stated: optional exactly when the bound is 0.
C10_AsStated == C10_Case(TRUE)

\* An object without materials has met a material facet of bound -1 and
\* passed as optional.
C10_Witness ==
    /\ IsSome(cOut)
    /\ cReq.facet.type = "material"
    /\ cReq.facet.minOccurs = Some(0 - 1)
    /\ Len(cObj.materials) = 0
    /\ Get(cOut) = Pass(<<"OK (optionnel)">>)


\* C2 (as stated): in the IDS Validation tab a non-empty held result list
\* was produced by a validation run of the currently selected IDS file,
\* whatever the interleaving of user actions with load and validation
\* completions.
C2_ResultsBelongToSelectedFile ==
    Len(results) > 0 => resultsOf = selectedIDS

\* C3 (as stated): the view state of the IDS Validation tab moves only along
\* select -> loading -> loaded -> validating -> results -> pdf-preview, the
\* error returns loading -> select and validating -> loaded, the return
\* pdf-preview -> results, and any state -> loading on a new file selection.
C3_ViewStateMovesAlongTheSequence ==
    [][viewState' # viewState =>
         \/ viewState' = "loading"
         \/ <<viewState, viewState'>> \in
                {<<"loading", "loaded">>, <<"loaded", "validating">>,
                 <<"validating", "results">>, <<"results", "pdf-preview">>,
                 <<"loading", "select">>, <<"validating", "loaded">>,
                 <<"pdf-preview", "results">>}]_vars

\* C4 (as stated): once the host has pushed an extension.accessToken event
\* carrying token T, the published access token is T until the next such
\* event, also while the connection sequence is still in progress.
C4_PushedTokenStaysPublished ==
    IsSome(tcPushed) => tcState.accessToken = tcPushed

\* C5: each of the six mutation helpers resolves without raising when the
\* capability handle is null, in which case it issues no host call at all,
\* and when every host call it issues rejects.
C5_MutationHelpersNeverRaise ==
    bCall.fn \in MutationHelpers =>
        /\ bOut # "rejected"
        /\ bPc = "done" => bOut = "resolved"
        /\ bCall.api = None => bLog = <<>>
        /\ Len(bLog) <= 10

\* toggleModelVisibility has resolved after every host call it issued
\* rejected, the last of them removeModel.
C5_Witness ==
    /\ bCall.fn = "toggleModelVisibility"
    /\ bPc = "done"
    /\ bOut = "resolved"
    /\ Len(bLog) >= 3
    /\ \A i \in 1..Len(bLog) : bLog[i].outcome = "rejected"
    /\ bLog[Len(bLog)].call.op = "removeModel"

\* C6: getAllModelRuntimeIds tries getObjects, getEntities, then the
\* hierarchy with hints 'spatial', 'containment', 'storey', 'type', '' in
\* this order; it returns the ids found by the first attempt that succeeds
\* (a bulk attempt yielding ids, a hierarchy attempt yielding a non-empty
\* node list, or a non-empty string, which holds no node and no id) and
\* issues no later host call; when no attempt succeeds it resolves with the
\* empty list instead of raising.
C6_FirstSuccessfulAttemptWins ==
    LET caps == Get(bCall.api)
        order == <<"getObjects", "getEntities", "spatial", "containment",
                   "storey", "type", "">>
        key(c) == IF c.op = "getHierarchyChildren" THEN c.arg ELSE c.op
        available(k) ==
            /\ k = "getObjects" => caps.getObjects
            /\ k = "getEntities" => caps.getEntities
        expected == SelectSeq(order, available)
        bulk(e) == e.call.op \in {"getObjects", "getEntities"}
        accepted(e) ==
            /\ e.outcome = "resolved"
            /\ IF bulk(e) THEN Len(extractRuntimeIdsFromResult(e.result)) > 0
               ELSE \/ IsArray(e.result) /\ Len(e.result.items) > 0
                    \/ e.result.t = "string" /\ e.result.s # <<>>
        ids(e) == IF bulk(e) THEN extractRuntimeIdsFromResult(e.result)
                  ELSE IF IsArray(e.result) THEN collectRuntimeIds(e.result.items)
                  ELSE <<>>
        n == Len(bLog)
    IN bCall.fn = "getAllModelRuntimeIds" =>
        /\ n <= Len(expected)
        /\ \A i \in 1..n : key(bLog[i].call) = expected[i]
        /\ \A i \in 1..(n - 1) : ~accepted(bLog[i])
        /\ bOut # "rejected"
        /\ bPc = "done" =>
            /\ bOut = "resolved"
            /\ IsSome(bFound)
            /\ n > 0
            /\ IF accepted(bLog[n]) THEN Get(bFound) = ids(bLog[n])
               ELSE n = Len(expected) /\ Get(bFound) = <<>>

\* Both bulk capabilities failed, one by rejecting, and the first hierarchy
\* attempt gave the ids returned.
C6_Witness ==
    /\ bCall.fn = "getAllModelRuntimeIds"
    /\ bPc = "done"
    /\ Len(bLog) = 3
    /\ bLog[1].call.op = "getObjects" /\ bLog[1].outcome = "rejected"
    /\ bLog[2].call.op = "getEntities" /\ bLog[2].outcome = "resolved"
    /\ bLog[3].call = HostCall("getHierarchyChildren", "spatial")
    /\ bFound = Some(<<Num(3), Num(4)>>)

\* C7 (as stated): normalizeSelection returns without throwing for every
\* input: an array of records unchanged, an array of wrappers flattened, a
\* single record in a one-element array, a single wrapper as its
\* modelObjectIds array, and the empty array for every other value.
C7_NormalizeSelectionIsTotal ==
    LET isRecord(v) ==
            /\ v.t = "object"
            /\ {"modelId", "objectRuntimeIds"} \subseteq DOMAIN v.fields
        isWrapper(v) ==
            /\ v.t = "object"
            /\ "modelObjectIds" \in DOMAIN v.fields
            /\ IsArray(v.fields["modelObjectIds"])
        all(items, test(_)) == Len(items) > 0 /\ \A i \in 1..Len(items) : test(items[i])
        RECURSIVE flatten(_)
        flatten(items) ==
            IF Len(items) = 0 THEN <<>>
            ELSE Head(items).fields["modelObjectIds"].items \o flatten(Tail(items))
        documented(d) ==
            IF IsArray(d) /\ all(d.items, isRecord) THEN d.items
            ELSE IF IsArray(d) /\ all(d.items, isWrapper) THEN flatten(d.items)
            ELSE IF isRecord(d) THEN <<d>>
            ELSE IF isWrapper(d) THEN d.fields["modelObjectIds"].items
            ELSE <<>>
    IN IsSome(nOut) =>
        /\ ~Get(nOut).throws
        /\ Get(nOut).value = documented(nIn)

\* C8 (as stated, in its most favourable case: the state updater ran inside
\* the handler and the node is a model or lies under one): the toggle made
\* one bridge call, the model-level toggle for a model node and an
\* object-level call covering the node and its descendants otherwise, and
\* the visibility it pushed equals the node's new local flag.
C8_PushedVisibilityIsTheNewFlag ==
    (IsSome(exLast) /\ Get(exLast).eager /\ Get(exLast).node # RootId) =>
        LET node == Get(exLast).node IN
        /\ IsSome(exPush)
        /\ Get(exPush).fn = IF NodeType(node) = "model"
                            THEN "toggleModelVisibility" ELSE "setObjectVisibility"
        /\ Get(exPush).modelId = ModelId
        /\ NodeType(node) # "model" =>
               Get(exPush).runtimeIds = collectNodeRuntimeIds(node)
        /\ Get(exPush).visible = exVisible[node]


\* C11 (as stated): every child element of the applicability block and of
\* the requirements block whose kind is entity, property, material,
\* classification, attribute or partOf yields exactly one facet of that
\* kind, in document order, every requirements-side facet yields exactly
\* one IDSRequirement, and children of any other kind yield nothing.
C11_EveryFacetElementIsParsed ==
    LET isFacet(el) ==
            el.localName \in {"entity", "property", "material", "classification",
                              "attribute", "partOf"}
        kinds(children) ==
            LET kept == SelectSeq(children, isFacet)
            IN [k \in 1..Len(kept) |-> kept[k].localName]
        types(facets) == [k \in 1..Len(facets) |-> facets[k].type]
        out == Get(pOut).value
    IN IsSome(pOut) =>
        /\ ~Get(pOut).threw
        /\ types(out.applicability) = kinds(pIn.applicability)
        /\ types(out.requirements) = kinds(pIn.requirements)
        /\ \A k \in 1..Len(out.requirements) :
               out.requirements[k].facet.type = out.requirements[k].type

\* The rows the report owes to the results up to the k-th: one per detail,
\* one for a result without details.
RECURSIVE RowsOwed(_, _)
RowsOwed(rs, k) ==
    IF k = 0 THEN 0
    ELSE RowsOwed(rs, k - 1)
         + (IF Len(rs[k].details) = 0 THEN 1 ELSE Len(rs[k].details))

RECURSIVE SumOf(_, _, _)
SumOf(rs, field, k) == IF k = 0 THEN 0 ELSE SumOf(rs, field, k - 1) + rs[k][field]

\* The part of C12 about the rows: after the header row (line 14) come, in
\* result order, one row per detail holding that detail's object id, or one
\* "N/A" row for a result without details.
RowsFollowTheResults ==
    IsSome(xOut) =>
        LET lines == Get(xOut)
            rs == xIn.results
        IN /\ lines[14] = HeaderRow
           /\ Len(lines) = 14 + RowsOwed(rs, Len(rs))
           /\ \A r \in 1..Len(rs) :
                LET at == 14 + RowsOwed(rs, r - 1) IN
                IF Len(rs[r].details) = 0
                THEN /\ Includes(lines[at + 1], <<";", ";", ";", "N/A", ";">>)
                     /\ Includes(lines[at + 1], rs[r].specificationName)
                ELSE \A k \in 1..Len(rs[r].details) :
                        /\ Includes(lines[at + k], rs[r].details[k].objectId)
                        /\ Includes(lines[at + k], rs[r].specificationName)

\* The part of C12 about the three totals of the summary.
TotalsAreSums ==
    IsSome(xOut) =>
        LET lines == Get(xOut)
            rs == xIn.results
            n == Len(rs)
        IN /\ lines[9] = <<"Total verifie", ";", ToString(SumOf(rs, "totalChecked", n))>>
           /\ lines[10] = <<"Conformes", ";", ToString(SumOf(rs, "passed", n))>>
           /\ lines[11] = <<"Non conformes", ";", ToString(SumOf(rs, "failed", n))>>

\* C12: the report written for any list of results has a summary whose
\* totals are the sums of the per-result counts and whose pass rate is
\* 100 * passed / checked rounded to the nearest integer (0 when nothing was
\* checked), and, after the header row, one row per detail plus one "N/A"
\* row per result without details, in result order.
C12_SummaryAndRowsOfTheReport ==
    /\ TotalsAreSums
    /\ RowsFollowTheResults
    /\ IsSome(xOut) =>
        LET rs == xIn.results
            checked == SumOf(rs, "totalChecked", Len(rs))
            passed == SumOf(rs, "passed", Len(rs))
            rate == IF checked = 0 THEN 0
                    ELSE (200 * passed + checked) \div (2 * checked)
        IN Get(xOut)[12] = <<"Taux de conformite", ";", ToString(rate), "%">>

\* The batches of the fetches logged for model, one after the other.
RECURSIVE BatchesOf(_, _)
BatchesOf(log, model) ==
    IF log = <<>> THEN <<>>
    ELSE (IF Head(log).model = model THEN Head(log).batch ELSE <<>>)
         \o BatchesOf(Tail(log), model)

\* The place of a model in the list the host returned.
PlaceOf(model) == CHOOSE j \in 1..Len(eModels) : eModels[j] = model

\* C13: during getAllIFCObjects the property fetches follow the models in
\* the order the host listed them; every fetch asks for at least one and at
\* most 50 runtime ids; the fetches of a model, put end to end, are the
\* start of its id list while the model is being read and the whole list,
\* once, in order, when the loop leaves the model; and a fetch is issued
\* only when every earlier one has settled, so at most one is in flight.
C13_BatchesInOrderOneAtATime ==
    /\ \A k \in 1..Len(eLog) :
        /\ eLog[k].model \in {eModels[j] : j \in 1..Len(eModels)}
        /\ Len(eLog[k].batch) \in 1..50
        /\ k > 1 => PlaceOf(eLog[k - 1].model) <= PlaceOf(eLog[k].model)
        /\ k < Len(eLog) => eLog[k].outcome # "pending"
    /\ eFlight \in {0, 1}
    /\ eFlight = Cardinality({k \in 1..Len(eLog) : eLog[k].outcome = "pending"})
    /\ ePc = "props" =>
        LET got == BatchesOf(eLog, eModels[eM]) IN
        /\ Len(got) <= Len(eIds)
        /\ got = SubSeq(eIds, 1, Len(got))
        /\ Len(got) = IF eI + 50 < Len(eIds) THEN eI + 50 ELSE Len(eIds)
    /\ ePc \in {"ids", "done"} /\ eM >= 2 =>
        BatchesOf(eLog, eModels[eM - 1]) = eIds

\* Two models were read to the end, the second over two fetches.
C13_Witness ==
    /\ ePc = "done" /\ Len(eModels) = 2 /\ Len(eIds) = 51
    /\ Cardinality({k \in 1..Len(eLog) : eLog[k].model = eModels[2]}) = 2
    /\ \E k \in 1..Len(eLog) : eLog[k].model = eModels[1] /\ Len(eLog[k].batch) = 50

\* The objects owed to the fetches of log that resolved: every entry of
\* each answer that has a class, in order.
RECURSIVE ObjectsOwed(_)
ObjectsOwed(log) ==
    IF log = <<>> THEN <<>>
    ELSE LET f == Head(log)
             entries == IF IsArray(f.result) THEN f.result.items ELSE <<f.result>>
             kept == SelectSeq(entries,
                        LAMBDA e : IsSome(viewerPropsToIFCObject(e, f.model)))
         IN (IF f.outcome = "resolved"
             THEN [k \in 1..Len(kept) |-> Get(viewerPropsToIFCObject(kept[k], f.model))]
             ELSE <<>>)
            \o ObjectsOwed(Tail(log))

\* C14: a getAllIFCObjects call during which a property fetch was rejected
\* still went through every model of the list and issued every batch of
\* every model, and it resolved with the objects of all the fetches that
\* resolved; the call never ends without a value.
C14_RejectedBatchIsSkippedOnly ==
    /\ ePc = "done" => IsSome(eOut)
    /\ (ePc = "done" /\ \E k \in 1..Len(eLog) : eLog[k].outcome = "rejected") =>
        /\ [k \in 1..Len(eAsked) |-> eAsked[k].model] = eModels
        /\ \A k \in 1..Len(eAsked) :
                BatchesOf(eLog, eAsked[k].model) = eAsked[k].ids
        /\ \A k \in 1..Len(eLog) : eLog[k].outcome # "pending"
        /\ Get(eOut) = ObjectsOwed(eLog)

\* The first fetch of the first of two models was rejected, later fetches
\* of both models resolved, and the call returned objects of both.
C14_Witness ==
    /\ ePc = "done" /\ Len(eModels) = 2 /\ Len(eLog) >= 3
    /\ eLog[1].outcome = "rejected" /\ eLog[1].model = eModels[1]
    /\ eLog[2].outcome = "resolved" /\ eLog[2].model = eModels[1]
    /\ eLog[Len(eLog)].outcome = "resolved" /\ eLog[Len(eLog)].model = eModels[2]
    /\ \E i, j \in 1..Len(Get(eOut)) :
        /\ Get(eOut)[i].id[1] = "m" /\ Get(eOut)[i].id[2] = "1"
        /\ Get(eOut)[j].id[2] = "2"

\* C15: when the frame is not nested or no SDK global exists, the hook never
\* calls connect and never schedules the selection poll, and from the mount
\* on the published state is: connected, not embedded, project 'Dev local'
\* in 'europe', the stand-in token, no selection, no capability handle.
C15_StandaloneNeverConnectsNorPolls ==
    ~(tcEnv.isInIframe /\ tcEnv.sdk) =>
        /\ tcConnects = 0 /\ ~tcApiRef
        /\ tcPoll = "off" /\ tcTicks = 0 /\ tcPending = 0
        /\ tcPc # "mount" =>
            /\ tcState.isConnected /\ ~tcState.isEmbedded
            /\ IsSome(tcState.project)
            /\ Get(tcState.project).name = "Dev local"
            /\ Get(tcState.project).location = "europe"
            /\ tcState.accessToken = Some("mock-token")
            /\ tcState.selection = <<>>
            /\ tcState.api = None

\* The hook was mounted in a nested frame without an SDK global.
C15_Witness ==
    tcEnv.isInIframe /\ ~tcEnv.sdk /\ tcPc = "standalone" /\ tcState.isConnected

\* C16: when the query of a poll tick resolves with a selection whose
\* normalized form has the same JSON text as the published selection, the
\* published state stays the value it was; when the query rejects, nothing
\* of the hook's state changes and the interval stays scheduled.
C16_QuietPollChangesNothing ==
    [][(tcPending' = tcPending - 1) =>
        LET poll == Get(tcLastPoll')
            n == normalizeSelection(poll.raw)
        IN /\ (poll.outcome = "rejected") =>
                /\ tcState' = tcState /\ tcLocal' = tcLocal /\ tcPc' = tcPc
                /\ tcPoll' = "scheduled" /\ tcTicks' = tcTicks
           /\ (poll.outcome = "resolved" /\ ~n.throws
               /\ JSONStringify(Arr(n.value)) = JSONStringify(Arr(tcState.selection))) =>
                tcState' = tcState]_vars

\* A tick's query resolved with a selection that differs from the published
\* one as a value (undefined where the published one has null) but not as
\* JSON text, and the published selection is still the old one.
C16_Witness ==
    /\ IsSome(tcLastPoll) /\ Get(tcLastPoll).outcome = "resolved"
    /\ LET n == normalizeSelection(Get(tcLastPoll).raw) IN
        /\ ~n.throws /\ n.value # <<>>
        /\ n.value # tcState.selection
        /\ JSONStringify(Arr(n.value)) = JSONStringify(Arr(tcState.selection))

\* C17: importing a file whose name does not end in '.ids', whatever the
\* case of the letters, sets the error message "Le fichier doit avoir
\* l'extension .ids" and nothing else: no load is started, and the view
\* state, the selected IDS file and the held results stay as they were.
C17_BadExtensionOnlySetsTheError ==
    [][(lastFile' # lastFile /\ IsSome(lastFile')
        /\ Get(lastFile')[Len(Get(lastFile'))] \notin {".ids", ".IDS"}) =>
            /\ loadError' = <<"Le fichier doit avoir l'extension .ids">>
            /\ pending' = pending
            /\ viewState' = viewState
            /\ selectedIDS' = selectedIDS
            /\ results' = results
            /\ validationProgress' = validationProgress]_vars

\* A file named a.ids.xml was imported while results were shown.
C17_Witness ==
    /\ lastFile = Some(<<"a", ".ids", ".xml">>)
    /\ loadError = <<"Le fichier doit avoir l'extension .ids">>
    /\ viewState = "results" /\ results # <<>> /\ selectedIDS # 0

\* C18: in the Technical Sheet tab, whenever no property fetch is pending,
\* the loading indicator is off and the object displayed is the one the
\* current selection calls for: the first object fetched for it, nothing
\* when the fetch gave no object or the selection holds no id (the stand-in
\* record when there is no host), whatever the order the fetches settled in.
C18_SettledSheetShowsCurrentSelection ==
    (sMounted /\ sFetches = <<>>) =>
        /\ ~sLoading
        /\ sObject =
            IF selectionCount(sSel) = 0
            THEN (IF sApi THEN NoObject ELSE MockObjectData)
            ELSE IF IsSome(sLatest) /\ Len(Get(sLatest)) > 0
            THEN Get(sLatest)[1] ELSE NoObject

\* The place of the tile id in a tile list.
PlaceOfTile(list, id) == CHOOSE i \in 1..Len(list) : list[i].id = id

\* C19: dropping the dragged tile A on another tile B puts A where B was
\* and B where A was, leaves every other tile in its place and every
\* visibility flag as it was; and at all times the tile list holds each of
\* the twelve default tile ids exactly once.
C19_DropSwapsTwoTiles ==
    /\ [](/\ Len(tiles) = 12
          /\ \A i \in 1..12 : \E j \in 1..Len(tiles) : tiles[j].id = defaultTiles[i].id)
    /\ [][(IsSome(lastDrop') /\ IsSome(Get(lastDrop').dragged)
           /\ Get(Get(lastDrop').dragged) # Get(lastDrop').target) =>
            LET a == Get(Get(lastDrop').dragged)
                b == Get(lastDrop').target
            IN /\ PlaceOfTile(tiles', a) = PlaceOfTile(tiles, b)
               /\ PlaceOfTile(tiles', b) = PlaceOfTile(tiles, a)
               /\ \A i \in 1..Len(tiles) :
                    tiles[i].id \notin {a, b} => tiles'[i] = tiles[i]
               /\ \A i \in 1..Len(tiles) :
                    tiles'[PlaceOfTile(tiles', tiles[i].id)].visible = tiles[i].visible]_vars

\* The last tile was dragged onto the first while the fourth was hidden.
C19_Witness ==
    /\ lastDrop = Some([dragged |-> Some("material-bars"), target |-> "sum-elements"])
    /\ tiles[1].id = "material-bars" /\ tiles[12].id = "sum-elements"
    /\ \E i \in 1..12 : tiles[i].id = "prop-surface" /\ ~tiles[i].visible

\* C20: the host calls of toggleModelVisibility come strategy by strategy:
\* toggleModel first and only when the viewer has it, then the discovery
\* calls and setObjectState (issued only when discovery found ids), then
\* removeModel, only when hiding and when the viewer has it.  A call of
\* toggleModel, setObjectState or removeModel that resolves is the last
\* call issued.  The function never rejects, and when none of these calls
\* resolved it has tried every strategy that applies before resolving.
C20_VisibilityStrategiesInOrder ==
    (bCall.fn = "toggleModelVisibility" /\ IsSome(bCall.api)) =>
        LET caps == Get(bCall.api)
            issued == [i \in 1..Len(bLog) |-> bLog[i].call.op]
                      \o (IF Awaiting THEN <<PendingCall.op>> ELSE <<>>)
            rank(op) == CASE op = "toggleModel" -> 1
                          [] op = "removeModel" -> 3
                          [] OTHER -> 2
            Count(op) == Cardinality({i \in 1..Len(issued) : issued[i] = op})
            ends(op) == op \in {"toggleModel", "setObjectState", "removeModel"}
            won == \E i \in 1..Len(bLog) :
                        ends(bLog[i].call.op) /\ bLog[i].outcome = "resolved"
        IN /\ \A i \in 1..(Len(issued) - 1) : rank(issued[i]) <= rank(issued[i + 1])
           /\ Count("toggleModel") <= 1 /\ Count("setObjectState") <= 1
           /\ Count("removeModel") <= 1
           /\ Count("toggleModel") = 1 => caps.toggleModel /\ issued[1] = "toggleModel"
           /\ (caps.toggleModel /\ issued # <<>>) => issued[1] = "toggleModel"
           /\ Count("setObjectState") = 1 =>
                /\ IsSome(bFound) /\ Len(Get(bFound)) > 0
                /\ issued[Len(issued)] = "setObjectState"
                   \/ issued[Len(issued)] = "removeModel"
           /\ Count("removeModel") = 1 => ~bCall.visible /\ caps.removeModel
           /\ \A i \in 1..Len(bLog) :
                (ends(bLog[i].call.op) /\ bLog[i].outcome = "resolved") =>
                    i = Len(bLog) /\ ~Awaiting /\ bPc = "done"
           /\ bOut # "rejected"
           /\ bPc = "done" => bOut = "resolved"
           /\ (bPc = "done" /\ ~won) =>
                /\ caps.toggleModel => Count("toggleModel") = 1
                /\ \E i \in 1..Len(issued) : rank(issued[i]) = 2
                /\ (IsSome(bFound) /\ Len(Get(bFound)) > 0) => Count("setObjectState") = 1
                /\ (~bCall.visible /\ caps.removeModel) => Count("removeModel") = 1

\* Hiding a model: toggleModel rejected, discovery found ids, setObjectState
\* rejected, removeModel resolved and ended the call.
C20_Witness ==
    /\ bCall.fn = "toggleModelVisibility" /\ ~bCall.visible
    /\ bPc = "done" /\ bOut = "resolved" /\ Len(bLog) >= 4
    /\ bLog[1].call.op = "toggleModel" /\ bLog[1].outcome = "rejected"
    /\ IsSome(bFound) /\ Len(Get(bFound)) > 0
    /\ bLog[Len(bLog) - 1].call.op = "setObjectState"
    /\ bLog[Len(bLog) - 1].outcome = "rejected"
    /\ bLog[Len(bLog)].call.op = "removeModel"
    /\ bLog[Len(bLog)].outcome = "resolved"

\* The indexes of the requirements that fail on obj.
FailingOf(obj, requirements) ==
    {i \in 1..Len(requirements) : ~checkRequirement(obj, requirements[i]).pass}

\* The messages of the failing requirements from index i on, in requirement
\* order, separated by " ; ".
RECURSIVE MessagesFrom(_, _, _)
MessagesFrom(obj, requirements, i) ==
    IF i > Len(requirements) THEN <<>>
    ELSE LET rest == MessagesFrom(obj, requirements, i + 1)
             r == checkRequirement(obj, requirements[i])
         IN IF r.pass THEN rest
            ELSE IF \E j \in FailingOf(obj, requirements) : j > i
                 THEN r.message \o <<" ; ">> \o rest
                 ELSE r.message

\* The positions in objects of the objects that match every facet of the
\* applicability.
MatchingPlaces(objects, applicability) ==
    {i \in 1..Len(objects) :
        \A k \in 1..Len(applicability) : objectMatchesFacet(objects[i], applicability[k])}

\* The result of one specification against the object set, as claimed.
DetailsAsClaimed(result, spec, objects) ==
    LET places == MatchingPlaces(objects, spec.applicability) IN
    /\ Len(result.details) = Cardinality(places)
    /\ \A i \in 1..Len(objects) :
          (i \in places) <=>
              \E d \in 1..Len(result.details) : result.details[d].objectId = objects[i].id
    /\ \A d \in 1..Len(result.details) : \A i \in places :
          result.details[d].objectId = objects[i].id =>
              LET failing == FailingOf(objects[i], spec.requirements) IN
              /\ (result.details[d].status = "pass") <=> (failing = {})
              /\ (result.details[d].message = <<"OK">>) <=> (failing = {})
              /\ failing # {} =>
                    /\ result.details[d].status = "fail"
                    /\ result.details[d].message
                         = MessagesFrom(objects[i], spec.requirements, 1)

\* C21: for every specification and object set, an object gets a detail
\* record exactly when it matches every applicability facet; its status is
\* "pass" with message "OK" exactly when every requirement passes on it, and
\* otherwise "fail" with the messages of all failing requirements, in
\* requirement order, joined by " ; ".
C21_DetailsFollowApplicabilityAndRequirements ==
    \A k \in 1..Len(vRun.results) :
        DetailsAsClaimed(vRun.results[k], vRun.idsFile.specifications[k],
                         vRun.objects)

\* A run has produced a passing record, a record that joins the messages of
\* two failing requirements, and has left an object without a record.
C21_Witness ==
    /\ Len(vRun.results) >= 2
    /\ \E d \in 1..Len(vRun.results[1].details) :
          /\ vRun.results[1].details[d].status = "fail"
          /\ \E i \in 1..Len(vRun.objects) :
                /\ vRun.objects[i].id = vRun.results[1].details[d].objectId
                /\ Cardinality(FailingOf(vRun.objects[i],
                                vRun.idsFile.specifications[1].requirements)) = 2
    /\ \E d \in 1..Len(vRun.results[1].details) :
          vRun.results[1].details[d].status = "pass"
    /\ Len(vRun.results[1].details) < Len(vRun.objects)

\* The pattern alone: the regular expression, or the substring test when the
\* pattern is not a regular expression.
PatternDecides(r, a) ==
    IF ValidPattern(Get(r.pattern)) THEN RegExpTest(Get(r.pattern), a)
    ELSE Includes(a, Get(r.pattern))

\* The enumeration alone: a member equal to the value, letter case ignored.
EnumerationDecides(r, a) ==
    \E i \in 1..Len(Get(r.enumeration)) :
        ToUpperCase(Get(r.enumeration)[i]) = ToUpperCase(a)

\* The length bounds and, for a value that parses as a number, the numeric
\* bounds.
BoundsDecide(r, a) ==
    /\ IsSome(r.minLength) => Len(a) >= Get(r.minLength)
    /\ IsSome(r.maxLength) => Len(a) <= Get(r.maxLength)
    /\ IsSome(r.length) => Len(a) = Get(r.length)
    /\ IsSome(ParseFloat(a)) =>
          /\ IsSome(r.minInclusive) => Get(ParseFloat(a)) >= Get(r.minInclusive)
          /\ IsSome(r.maxInclusive) => Get(ParseFloat(a)) <= Get(r.maxInclusive)

\* The outcome owed for the constraint and the value, patternSet telling
\* which restrictions count as having a pattern.
OutcomeOwed(patternSet(_)) ==
    /\ mConstraint.type = "absent" => Get(mOut)
    /\ (mConstraint.type = "restriction" /\ ~IsSome(mActual)) => ~Get(mOut)
    /\ (mConstraint.type = "restriction" /\ IsSome(mActual)) =>
          LET r == Get(mConstraint.restriction)
              a == Get(mActual)
          IN Get(mOut) <=>
                IF patternSet(r) THEN PatternDecides(r, a)
                ELSE IF IsSome(r.enumeration) THEN EnumerationDecides(r, a)
                ELSE BoundsDecide(r, a)

PatternPresent(r) == IsSome(r.pattern)
PatternNonEmpty(r) == IsSome(r.pattern) /\ Get(r.pattern) # <<>>

\* C22 as stated: true for an absent constraint, false for a restriction with
\* an absent value; otherwise the pattern alone decides when a pattern is
\* set, else the enumeration alone when one is set, else the length bounds
\* together with the numeric bounds for a value that parses as a number.
\* Refuted by a restriction whose pattern is the empty text.
C22_AsStated == IsSome(mOut) => OutcomeOwed(PatternPresent)

\* C22, amended: the same, a pattern deciding only when it is not the empty
\* text; a restriction with an empty pattern is decided as if it had none.
C22_FirstFacetSetDecides == IsSome(mOut) => OutcomeOwed(PatternNonEmpty)

\* A restriction with a pattern and a length bound the value breaks has been
\* applied to a value the pattern accepts: the pattern alone decided.
C22_Witness ==
    /\ mOut = Some(TRUE)
    /\ mConstraint.type = "restriction" /\ IsSome(mActual)
    /\ PatternNonEmpty(Get(mConstraint.restriction))
    /\ ~BoundsDecide(Get(mConstraint.restriction), Get(mActual))

\* The number of fields a row splits into on ";" outside quoted fields: one
\* more than the semicolons met while no double quote is open, reading the
\* row from atom i on.
RECURSIVE FieldsFrom(_, _, _)
FieldsFrom(row, i, quoted) ==
    IF i > Len(row) THEN 1
    ELSE IF row[i] = "\"" THEN FieldsFrom(row, i + 1, ~quoted)
    ELSE (IF row[i] \in SemicolonAtoms /\ ~quoted THEN 1 ELSE 0)
         + FieldsFrom(row, i + 1, quoted)

\* C23: for every result list that validateIDS can produce, each row of the
\* detail table of the exported CSV (the header row, every detail row and
\* every "N/A" row) splits on ";", outside quoted fields, into exactly six
\* fields.  Refuted by a detail whose message joins two failures with " ; ".
C23_EveryRowHasSixFields ==
    IsSome(xOut) =>
        \A k \in 14..Len(Get(xOut)) : FieldsFrom(Get(xOut)[k], 1, FALSE) = 6

\* C24: for every object and every classification facet that names a system
\* (with or without a value constraint), the object matches the facet used as
\* an applicability filter exactly when it passes the same facet used as a
\* requirement.  Refuted by an object with two entries of the system of
\* which only the second has the value asked for.
C24_FilterAgreesWithRequirement ==
    (IsSome(fMatch) /\ IsSome(fCheck)) => (Get(fMatch) <=> Get(fCheck).pass)

\* The number of property entries of obj whose key holds "storey", "level"
\* or "etage" and whose value is name.
LevelEntriesOf(obj, name) ==
    Cardinality({e \in UNION {{<<ps, k>> : k \in DOMAIN obj.properties[ps]} :
                                ps \in DOMAIN obj.properties} :
                    /\ IsLevelKey(e[2])
                    /\ obj.properties[e[1]][e[2]] = name})

\* The same, over the first n objects of the list.
RECURSIVE LevelEntries(_, _, _)
LevelEntries(objects, name, n) ==
    IF n = 0 THEN 0
    ELSE LevelEntries(objects, name, n - 1) + LevelEntriesOf(objects[n], name)

\* The names the level table owes: the non-empty values of level entries
\* and the names of the building-storey objects.
LevelNamesOwed(objects) ==
    {objects[i].name : i \in {j \in 1..Len(objects) :
                                objects[j].ifcClass = <<"IFCBUILDINGSTOREY">>}}
    \cup {name \in {<<"Niveau 1">>, <<"Niveau 2">>} :
            LevelEntries(objects, name, Len(objects)) > 0}

\* C25: for any enumerated object list, in any order, detectModelFilters
\* reports for each level name a count equal to the number of property
\* entries over all objects whose key contains "storey", "level" or "etage"
\* and whose non-empty value is that name; a building-storey object only
\* contributes its name, with count 0 when no such entry exists; the level
\* table is sorted by descending count.  Refuted by a storey object listed
\* after an object placed on that storey.
C25_LevelCountsAreEntryCounts ==
    (gApi /\ IsSome(gFilters)) =>
        LET levels == Get(gFilters).levels IN
        /\ {levels[i].name : i \in 1..Len(levels)} = LevelNamesOwed(gObjects)
        /\ \A i, j \in 1..Len(levels) : i # j => levels[i].name # levels[j].name
        /\ \A i \in 1..Len(levels) :
              levels[i].count = LevelEntries(gObjects, levels[i].name, Len(gObjects))
        /\ \A i, j \in 1..Len(levels) : i < j => levels[i].count >= levels[j].count

\* The building-storey objects of the list, by position.
StoreyPlaces(objects) ==
    {i \in 1..Len(objects) : objects[i].ifcClass = <<"IFCBUILDINGSTOREY">>}

\* C26: when the enumerated list holds S >= 1 building-storey objects among
\* T objects, computeModelStatistics reports totalLevels = S and a level
\* distribution with one entry per storey object, each entry's count being
\* ceil((T - S) / S), or 0 when T = S.  Refuted by two storeys of one name.
C26_LevelsShareTheOtherObjects ==
    LET S == Cardinality(StoreyPlaces(gObjects))
        T == Len(gObjects)
    IN (gApi /\ IsSome(gStats) /\ S >= 1) =>
          /\ Get(gStats).totalLevels = S
          /\ Len(Get(gStats).levelDistribution) = S
          /\ \A i \in 1..S :
                Get(gStats).levelDistribution[i].count
                    = IF T = S THEN 0 ELSE (T - S + S - 1) \div S

\* No colour toggle of the tab is in progress.
NoColourPending == \A i \in 1..Len(pending) : pending[i].kind # "colour"

\* C27: in the IDS Validation tab with a capability handle, whenever the
\* 3D-colouring flag is off (and no toggle is in progress) no object in the
\* viewer carries a tint applied by this tab, for any sequence of colour
\* toggles, file loads and validation runs.  Refuted by results replaced
\* between the apply and the reset.
C27_FlagOffMeansNoTint ==
    (~colorApplied /\ NoColourPending) => \A id \in TintIds : tint[id] = None

\* C28: a selection published from a viewer.selectionChanged event is never
\* replaced by the result of a selection poll, or of the initial selection
\* read, whose query was issued before that event arrived.
C28_OlderQueryNeverReplacesEvent == syReplacedBy # "old"

\* The host's selection is one normalizeSelection accepts, and the
\* published selection is its normalized form.
HostNormalizes == ~normalizeSelection(syHost).throws

Synced ==
    /\ HostNormalizes
    /\ syState.selection = normalizeSelection(syHost).value

\* The published selection and the normalized host selection have the same
\* JSON text, which is what a tick compares: they are equal up to an
\* undefined element of one standing where the other has null.
SyncedAsText ==
    /\ HostNormalizes
    /\ JSONStringify(Arr(syState.selection))
         = JSONStringify(Arr(normalizeSelection(syHost).value))

\* C29: after a successful embedded connection, once the host's selection
\* no longer changes and the polls keep succeeding (the host answers, the
\* answer resolves and normalizeSelection accepts it), the published
\* selection eventually has the JSON text of the normalized host selection
\* and keeps it.
C29_PollsEventuallySynchroniseAsText ==
    (<>(syPc = "connected") /\ <>[][FALSE]_syHost)
        => <>[](HostNormalizes => SyncedAsText)

\* C29 as stated: the published selection eventually equals the normalized
\* host selection and stays equal to it.
C29_AsStated ==
    (<>(syPc = "connected") /\ <>[][FALSE]_syHost)
        => <>[](HostNormalizes => Synced)

\* The answer of a tick has just replaced the selection an event had
\* published with the normalized selection of the host.
C29_Witness ==
    /\ syPc = "connected" /\ syPoll = "scheduled"
    /\ syReplacedBy = "fresh"
    /\ Synced /\ syState.selection # <<>>

\* A tick has left the published selection alone although the normalized
\* host selection differs from it, the two having the same JSON text.
C29_SameTextWitness ==
    /\ syPc = "connected" /\ syPoll = "scheduled"
    /\ SyncedAsText /\ ~Synced

\* The number a value attribute spells, None when it spells none: an
\* attribute that is empty or all white space spells no number.
NumeralOf(value) ==
    IF StrTrim(value) = <<>> THEN None ELSE NumberOf(value)

\* What the claim says the facet of a tag holds.
NumericFacetOwed(e) ==
    IF e = None \/ Get(e).value = None THEN None
    ELSE NumeralOf(Get(Get(e).value))

\* C30: each of length, minLength, maxLength, minInclusive and maxInclusive
\* is left absent, never set to 0, when its element is missing, carries no
\* value attribute or carries a value that is not a number; otherwise it
\* holds the number parsed from the value attribute.
C30_NumericFacetsAbsentOrParsed ==
    rOut # None =>
        \A tag \in NumericTags : Get(rOut)[tag] = NumericFacetOwed(rEl[tag])

============================================================================
